---- MODULE Spec2Model ----
(***************************************************************************)
(* Model of the enrichment resolution pipeline of japanese_anki_generator  *)
(* (src/main.py): the cache-or-fetch resolution methods of JishoAPI,       *)
(* KanjiAPI, PitchAccentAPI and ExampleSentencesDB, and the orchestrator   *)
(* JapaneseVocabPipeline.run / _enrich_entry that drives them.             *)
(*                                                                         *)
(* Persisted cache files are modelled as functions from key to the file's  *)
(* content, "none" meaning that the file does not exist.  A network        *)
(* request is an input of the action that performs it: its outcome is      *)
(* drawn from the outcomes the code distinguishes.  File-system writes are *)
(* assumed to succeed.                                                     *)
(***************************************************************************)
EXTENDS Integers, Sequences, FiniteSets, TLC

\* ------------------------------------------------------------------------
\* Keys
\* ------------------------------------------------------------------------

\* The vocabulary word of the model: the suru-compound "ai" + "suru", one
\* kanji followed by kana.
Words == {"aisuru"}

\* The kanji characters (single characters in U+4E00..U+9FFF).
Kanji == {"ai"}

\* The arguments KanjiAPI.lookup is called with: a kanji, or a string of
\* length other than one.
KanjiKeys == Kanji \cup Words

\* The words that have a file in the pitch cache directory: the words of
\* the runs and one more.
CacheWords == Words \cup {"neko"}

\* The kanji data/jamdict_cache.json has entries for.
RadicalKanji == {"ai", "neko"}

\* first_kanji of _enrich_entry: the first kanji of the word, or "none".
FirstKanji(word) == IF word = "aisuru" THEN "ai" ELSE "none"

\* search_words of get_examples: the word, then its stem when it ends in
\* suru/su, then its hiragana form when it is mostly katakana.
SearchWords(word) ==
    IF word = "aisuru" THEN <<"aisuru", "ai">> ELSE <<word>>

\* The strings that are search words of some word.
SearchKeys ==
    UNION {{SearchWords(w)[i] : i \in 1..Len(SearchWords(w))} : w \in Words}

\* ------------------------------------------------------------------------
\* State
\* ------------------------------------------------------------------------

VARIABLES
    jishoCache,       \* data/jisho_cache/<hash>.json : word -> content
    englishCache,     \* data/english_cache/<hash>.txt : word -> content
    kanjiCache,       \* data/kanji_api_cache/<ord>.json : kanji -> content
    pitchCache,       \* data/pitch_cache/<hash>.json : word -> pattern
    examplesCache,    \* data/examples_cache/<hash>.json : word -> content
    PITCH_DB,         \* PitchAccentAPI.PITCH_DB, the curated pitch table
    SENTENCES,        \* ExampleSentencesDB.SENTENCES, the curated examples
    JishoAPI_last_api_called,
    KanjiAPI_last_api_called,
    PitchAccentAPI_last_api_called,
    ExampleSentencesDB_last_api_called,
    last,             \* observation of the last resolution call
    strokeCache,      \* <output>/stroke_cache/<ord>.svg exists : kanji -> BOOLEAN
    wordAudio,        \* <output>/audio/words/<hash>.mp3 exists : word -> BOOLEAN
    exAudio,          \* <output>/audio/examples/ex_<hash>.mp3 of the
                      \* word's example sentences exist : word -> BOOLEAN
    phase,            \* where JapaneseVocabPipeline.run is
    opts,             \* the arguments of the run under way
    entries,          \* number of records parser.parse() returned
    total_words,      \* stats["total_words"]
    deck,             \* deck_generator: the records add_entry was given
    processed,        \* JapaneseVocabPipeline.processed
    checkpoint,       \* the "processed" list of <output>/checkpoint.json
    _last_api_called, \* JapaneseVocabPipeline._last_api_called
    rec,              \* observation of the last record of the run
    jamdict_cache_file, \* entries of data/jamdict_cache.json
    _jamdict,         \* RadicalDB._jamdict is set (jamdict is installed)
    _loaded,          \* RadicalDB._loaded
    _jamdict_cache,   \* RadicalDB._jamdict_cache
    radLast,          \* observation of the last _get_components call
    pureCall          \* a call of a function of its arguments only: the
                      \* arguments and, once it has returned, the result

cacheVars == <<jishoCache, englishCache, kanjiCache, pitchCache, examplesCache>>
mediaVars == <<strokeCache, wordAudio, exAudio>>
pipeVars == <<phase, opts, entries, total_words, deck, processed, checkpoint,
              _last_api_called, rec>>
tableVars == <<PITCH_DB, SENTENCES>>
radicalVars == <<jamdict_cache_file, _jamdict, _loaded, _jamdict_cache, radLast>>
flagVars == <<JishoAPI_last_api_called, KanjiAPI_last_api_called,
              PitchAccentAPI_last_api_called, ExampleSentencesDB_last_api_called>>

\* ------------------------------------------------------------------------
\* Network outcomes, as far as the code tells them apart
\* ------------------------------------------------------------------------

\* jisho.org word search: the request raises or is not a 200 ("fail"), it
\* answers without an exact match ("nomatch"), or with one ("match").
JishoOutcomes == {"fail", "nomatch", "match"}

\* kanjiapi.dev: the request raises, is not a 200 or is not JSON ("fail"),
\* or it answers with a JSON document ("ok").
KanjiOutcomes == {"fail", "ok"}

\* jisho.org as a pitch source: failure, an answer without a pitch tag, or
\* an answer with a numeric pitch tag.
PitchOutcomes == {"fail", "notag", "tag"}

\* Example services, per search word: Tatoeba answers its Vietnamese query
\* ("vie"), only its English query ("eng"), Tatoeba is empty and the Jisho
\* sentence page has sentences ("jisho"), both are empty ("none"), or every
\* request raises ("fail").
ExWordOutcomes == {"vie", "eng", "jisho", "none", "fail"}

\* ------------------------------------------------------------------------
\* JishoAPI
\* ------------------------------------------------------------------------

\* JishoAPI.lookup(word), use_cache left at its default True (no caller
\* passes it).  cache is the jisho cache, flag is last_api_called before
\* the call.  In the record every resolution operator returns, net is the
\* number of requests sent, fetched tells whether the fetch step ran, read
\* whether the cache entry of the key was looked at and wrote whether it
\* was written.
JishoAPI_lookup(cache, flag, word, o) ==
    IF cache[word] # "none"
    THEN [cache |-> cache, flag |-> flag, result |-> cache[word],
          net |-> 0, fetched |-> FALSE, read |-> TRUE, wrote |-> FALSE]
    ELSE LET result == IF o = "match" THEN "hit" ELSE "{}"
         IN  [cache |-> [cache EXCEPT ![word] = result], flag |-> TRUE,
              result |-> result,
              net |-> 1, fetched |-> TRUE, read |-> TRUE, wrote |-> TRUE]

\* The meaning get_english_meaning builds from the senses of a result.
Meaning(data) == IF data = "hit" THEN "meaning" ELSE ""

\* Content written to / read from the english cache file.
EncodeMeaning(meaning) == IF meaning = "" THEN "_EMPTY_" ELSE meaning
DecodeMeaning(cached) == IF cached = "_EMPTY_" THEN "" ELSE cached

\* JishoAPI.get_english_meaning(word)
JishoAPI_get_english_meaning(jcache, ecache, word, o) ==
    IF ecache[word] # "none"
    THEN [jcache |-> jcache, ecache |-> ecache, flag |-> FALSE,
          result |-> DecodeMeaning(ecache[word]),
          net |-> 0, fetched |-> FALSE, read |-> TRUE, wrote |-> FALSE]
    ELSE LET data == JishoAPI_lookup(jcache, FALSE, word, o)
             meaning == Meaning(data.result)
         IN  [jcache |-> data.cache,
              ecache |-> [ecache EXCEPT ![word] = EncodeMeaning(meaning)],
              flag |-> data.flag, result |-> meaning,
              net |-> data.net, fetched |-> data.fetched,
              read |-> TRUE, wrote |-> TRUE]

\* JishoAPI.get_reading(word): the reading of the cached or fetched result.
JishoAPI_get_reading(cache, flag, word, o) ==
    LET data == JishoAPI_lookup(cache, flag, word, o)
    IN  [data EXCEPT !.result = IF data.result = "hit" THEN "reading" ELSE ""]

\* JishoAPI.get_word_type(word)
JishoAPI_get_word_type(cache, flag, word, o) ==
    LET data == JishoAPI_lookup(cache, flag, word, o)
    IN  [data EXCEPT !.result = IF data.result = "hit" THEN "pos" ELSE ""]

\* JishoAPI.get_synonyms_antonyms(word)
JishoAPI_get_synonyms_antonyms(cache, flag, word, o) ==
    LET data == JishoAPI_lookup(cache, flag, word, o)
    IN  [data EXCEPT !.result = IF data.result = "hit" THEN "syn" ELSE ""]

\* ------------------------------------------------------------------------
\* KanjiAPI
\* ------------------------------------------------------------------------

\* KanjiAPI.lookup(kanji), use_cache left at its default True.
KanjiAPI_lookup(cache, kanji, o) ==
    IF kanji \notin Kanji
    THEN [cache |-> cache, flag |-> FALSE, result |-> "{}",
          net |-> 0, fetched |-> FALSE, read |-> FALSE, wrote |-> FALSE]
    ELSE IF cache[kanji] # "none"
    THEN [cache |-> cache, flag |-> FALSE, result |-> cache[kanji],
          net |-> 0, fetched |-> FALSE, read |-> TRUE, wrote |-> FALSE]
    ELSE IF o = "ok"
    THEN [cache |-> [cache EXCEPT ![kanji] = "data"], flag |-> TRUE,
          result |-> "data",
          net |-> 1, fetched |-> TRUE, read |-> TRUE, wrote |-> TRUE]
    ELSE [cache |-> cache, flag |-> TRUE, result |-> "{}",
          net |-> 1, fetched |-> TRUE, read |-> TRUE, wrote |-> FALSE]

\* KanjiAPI.get_readings(kanji): the kun/on readings of the document.
KanjiAPI_get_readings(cache, kanji, o) ==
    LET data == KanjiAPI_lookup(cache, kanji, o)
    IN  [data EXCEPT !.result = IF data.result = "data" THEN "kun_on" ELSE ""]

\* ------------------------------------------------------------------------
\* PitchAccentAPI
\* ------------------------------------------------------------------------

\* The pattern a curated PITCH_DB row carries.
CuratedPattern == "0"

\* PitchAccentAPI._fetch_from_jisho(word, reading)
PitchAccentAPI_fetch_from_jisho(o) == IF o = "tag" THEN "2" ELSE "?"

\* get_pitch_pattern with the offline shortcut persisting the "?" it returns.
PitchAccentAPI_get_pitch_pattern_PersistOffline(cache, db, word, offline, o) ==
    IF word \in db
    THEN [cache |-> cache, flag |-> FALSE, result |-> CuratedPattern,
          net |-> 0, fetched |-> FALSE, read |-> FALSE, wrote |-> FALSE]
    ELSE IF cache[word] \notin {"none", "corrupt"}
    THEN [cache |-> cache, flag |-> FALSE, result |-> cache[word],
          net |-> 0, fetched |-> FALSE, read |-> TRUE, wrote |-> FALSE]
    ELSE IF offline
    THEN [cache |-> [cache EXCEPT ![word] = "?"], flag |-> FALSE,
          result |-> "?",
          net |-> 0, fetched |-> FALSE, read |-> TRUE, wrote |-> TRUE]
    ELSE LET pattern == PitchAccentAPI_fetch_from_jisho(o)
         IN  [cache |-> [cache EXCEPT ![word] = pattern], flag |-> TRUE,
              result |-> pattern,
              net |-> 1, fetched |-> TRUE, read |-> TRUE, wrote |-> TRUE]

\* get_pitch_pattern with the cache file looked up before PITCH_DB.
PitchAccentAPI_get_pitch_pattern_CacheFirst(cache, db, word, offline, o) ==
    IF cache[word] \notin {"none", "corrupt"}
    THEN [cache |-> cache, flag |-> FALSE, result |-> cache[word],
          net |-> 0, fetched |-> FALSE, read |-> TRUE, wrote |-> FALSE]
    ELSE IF word \in db
    THEN [cache |-> cache, flag |-> FALSE, result |-> CuratedPattern,
          net |-> 0, fetched |-> FALSE, read |-> TRUE, wrote |-> FALSE]
    ELSE IF offline
    THEN [cache |-> cache, flag |-> FALSE, result |-> "?",
          net |-> 0, fetched |-> FALSE, read |-> TRUE, wrote |-> FALSE]
    ELSE LET pattern == PitchAccentAPI_fetch_from_jisho(o)
         IN  [cache |-> [cache EXCEPT ![word] = pattern], flag |-> TRUE,
              result |-> pattern,
              net |-> 1, fetched |-> TRUE, read |-> TRUE, wrote |-> TRUE]

\* PitchAccentAPI.get_pitch_pattern(word, reading, offline); the morae of
\* the returned pair depend on the reading only and are left out.
PitchAccentAPI_get_pitch_pattern(cache, db, word, offline, o) ==
    IF word \in db
    THEN [cache |-> cache, flag |-> FALSE, result |-> CuratedPattern,
          net |-> 0, fetched |-> FALSE, read |-> FALSE, wrote |-> FALSE]
    ELSE IF cache[word] \notin {"none", "corrupt"}
    THEN [cache |-> cache, flag |-> FALSE, result |-> cache[word],
          net |-> 0, fetched |-> FALSE, read |-> TRUE, wrote |-> FALSE]
    ELSE IF offline
    THEN [cache |-> cache, flag |-> FALSE, result |-> "?",
          net |-> 0, fetched |-> FALSE, read |-> TRUE, wrote |-> FALSE]
    ELSE LET pattern == PitchAccentAPI_fetch_from_jisho(o)
         IN  [cache |-> [cache EXCEPT ![word] = pattern], flag |-> TRUE,
              result |-> pattern,
              net |-> 1, fetched |-> TRUE, read |-> TRUE, wrote |-> TRUE]

\* ------------------------------------------------------------------------
\* ExampleSentencesDB
\* ------------------------------------------------------------------------

\* Requests issued for one search word: _fetch_tatoeba sends the
\* Vietnamese query and, without results, the English one; then
\* _fetch_jisho_sentences sends one.  A raising network ends each of the
\* two functions at its first request.
Requests(wo) ==
    CASE wo = "vie" -> 1
      [] wo = "eng" -> 2
      [] wo = "jisho" -> 3
      [] wo = "none" -> 3
      [] wo = "fail" -> 2

\* The loop "for search_word in search_words" of get_examples from the
\* i-th search word on: o[i] is what the services answer for it.
RECURSIVE FetchVariations(_, _)
FetchVariations(o, i) ==
    IF i > Len(o)
    THEN [examples |-> "[]", net |-> 0]
    ELSE IF o[i] \in {"vie", "eng", "jisho"}
    THEN [examples |-> "sentences", net |-> Requests(o[i])]
    ELSE LET rest == FetchVariations(o, i + 1)
         IN  [examples |-> rest.examples, net |-> Requests(o[i]) + rest.net]

\* Whether some search word of the word is a key of SENTENCES.
InSentences(sentences, word) ==
    \E i \in 1..Len(SearchWords(word)) : SearchWords(word)[i] \in sentences

\* ExampleSentencesDB.get_examples(word, limit, offline), limit fixed.
ExampleSentencesDB_get_examples(cache, sentences, word, offline, o) ==
    IF InSentences(sentences, word)
    THEN [cache |-> cache, flag |-> FALSE, result |-> "curated",
          net |-> 0, fetched |-> FALSE, read |-> FALSE, wrote |-> FALSE]
    ELSE IF cache[word] \notin {"none", "[]"}
    THEN [cache |-> cache, flag |-> FALSE, result |-> cache[word],
          net |-> 0, fetched |-> FALSE, read |-> TRUE, wrote |-> FALSE]
    ELSE IF offline
    THEN [cache |-> cache, flag |-> FALSE, result |-> "[]",
          net |-> 0, fetched |-> FALSE, read |-> TRUE, wrote |-> FALSE]
    ELSE LET f == FetchVariations(o, 1)
         IN  [cache |-> [cache EXCEPT ![word] = f.examples], flag |-> TRUE,
              result |-> f.examples,
              net |-> f.net, fetched |-> TRUE, read |-> TRUE, wrote |-> TRUE]

\* The answers of the example services for the search words of a word.
ExOutcomes(word) == [1..Len(SearchWords(word)) -> ExWordOutcomes]

\* ------------------------------------------------------------------------
\* Observation of a resolution call
\* ------------------------------------------------------------------------

\* The class of a fetch outcome: "fail", "empty" or "payload".
JishoClass(o) ==
    CASE o = "fail" -> "fail" [] o = "nomatch" -> "empty" [] o = "match" -> "payload"
KanjiClass(o) == IF o = "ok" THEN "payload" ELSE "fail"
PitchClass(o) ==
    CASE o = "fail" -> "fail" [] o = "notag" -> "empty" [] o = "tag" -> "payload"
ExClass(o) ==
    IF FetchVariations(o, 1).examples # "[]" THEN "payload"
    ELSE IF \E i \in 1..Len(o) : o[i] = "fail" THEN "fail"
    ELSE "empty"

NoCall ==
    [op |-> "none", key |-> "none", offline |-> FALSE, pre |-> "none",
     curated |-> FALSE, outcome |-> "na", fetched |-> FALSE, net |-> 0,
     result |-> "", flag |-> FALSE, read |-> FALSE, wrote |-> FALSE,
     again |-> FALSE, prevOnline |-> FALSE, prevFetched |-> FALSE,
     prevResult |-> ""]

\* What a caller sees of the call op(key, offline) that returned r: pre is
\* the cache entry of the key before the call, class the class of the
\* answer the network had for it, flag the source's last_api_called after
\* the call; the prev fields describe the call before it when that call
\* resolved the same key of the same source.
Observe(op, key, offline, pre, curated, class, r, flag) ==
    LET again == last.op = op /\ last.key = key
    IN  [op |-> op, key |-> key, offline |-> offline, pre |-> pre,
         curated |-> curated,
         outcome |-> IF r.fetched THEN class ELSE "na",
         fetched |-> r.fetched, net |-> r.net, result |-> r.result,
         flag |-> flag, read |-> r.read, wrote |-> r.wrote,
         again |-> again,
         prevOnline |-> again /\ ~last.offline,
         prevFetched |-> again /\ last.fetched,
         prevResult |-> IF again THEN last.result ELSE ""]

\* ------------------------------------------------------------------------
\* Resolution calls
\* ------------------------------------------------------------------------

\* A caller runs JishoAPI.lookup(word).
CallJishoLookup(word, o) ==
    \E r \in {JishoAPI_lookup(jishoCache, JishoAPI_last_api_called, word, o)} :
        /\ jishoCache' = r.cache
        /\ JishoAPI_last_api_called' = r.flag
        /\ last' = Observe("jisho", word, FALSE, jishoCache[word], FALSE,
                           JishoClass(o), r, r.flag)
        /\ UNCHANGED <<englishCache, kanjiCache, pitchCache, examplesCache,
                       tableVars, KanjiAPI_last_api_called,
                       PitchAccentAPI_last_api_called,
                       ExampleSentencesDB_last_api_called,
                       mediaVars, pipeVars, radicalVars, pureCall>>

\* A caller runs JishoAPI.get_english_meaning(word).
CallGetEnglishMeaning(word, o) ==
    \E r \in {JishoAPI_get_english_meaning(jishoCache, englishCache, word, o)} :
        /\ jishoCache' = r.jcache
        /\ englishCache' = r.ecache
        /\ JishoAPI_last_api_called' = r.flag
        /\ last' = Observe("english", word, FALSE, englishCache[word], FALSE,
                           JishoClass(o), r, r.flag)
        /\ UNCHANGED <<kanjiCache, pitchCache, examplesCache,
                       tableVars, KanjiAPI_last_api_called,
                       PitchAccentAPI_last_api_called,
                       ExampleSentencesDB_last_api_called,
                       mediaVars, pipeVars, radicalVars, pureCall>>

\* A caller runs KanjiAPI.lookup(kanji).
CallKanjiLookup(kanji, o) ==
    \E r \in {KanjiAPI_lookup(kanjiCache, kanji, o)} :
        /\ kanjiCache' = r.cache
        /\ KanjiAPI_last_api_called' = r.flag
        /\ last' = Observe("kanji", kanji, FALSE,
                           IF kanji \in Kanji THEN kanjiCache[kanji] ELSE "none",
                           FALSE, KanjiClass(o), r, r.flag)
        /\ UNCHANGED <<jishoCache, englishCache, pitchCache, examplesCache,
                       tableVars, JishoAPI_last_api_called,
                       PitchAccentAPI_last_api_called,
                       ExampleSentencesDB_last_api_called,
                       mediaVars, pipeVars, radicalVars, pureCall>>

\* A caller runs PitchAccentAPI.get_pitch_pattern(word, reading, offline).
CallGetPitchPattern(word, offline, o) ==
    \E r \in {PitchAccentAPI_get_pitch_pattern(pitchCache, PITCH_DB, word,
                offline, o)} :
        /\ pitchCache' = r.cache
        /\ PitchAccentAPI_last_api_called' = r.flag
        /\ last' = Observe("pitch", word, offline, pitchCache[word],
                           word \in PITCH_DB, PitchClass(o), r, r.flag)
        /\ UNCHANGED <<jishoCache, englishCache, kanjiCache, examplesCache,
                       tableVars, JishoAPI_last_api_called,
                       KanjiAPI_last_api_called,
                       ExampleSentencesDB_last_api_called,
                       mediaVars, pipeVars, radicalVars, pureCall>>

\* A caller runs ExampleSentencesDB.get_examples(word, limit, offline).
CallGetExamples(word, offline, o) ==
    \E r \in {ExampleSentencesDB_get_examples(examplesCache, SENTENCES, word,
                offline, o)} :
        /\ examplesCache' = r.cache
        /\ ExampleSentencesDB_last_api_called' = r.flag
        /\ last' = Observe("examples", word, offline, examplesCache[word],
                           InSentences(SENTENCES, word), ExClass(o), r, r.flag)
        /\ UNCHANGED <<jishoCache, englishCache, kanjiCache, pitchCache,
                       tableVars, JishoAPI_last_api_called,
                       KanjiAPI_last_api_called,
                       PitchAccentAPI_last_api_called,
                       mediaVars, pipeVars, radicalVars, pureCall>>


\* ------------------------------------------------------------------------
\* JapaneseVocabPipeline
\* ------------------------------------------------------------------------

\* The largest number of records of one run.
MaxEntries == 2

\* The largest number of features (--no-english, --no-audio, --no-pitch,
\* --no-stroke, --no-example) one run switches off.
MaxDisabled == 1

\* The keyword arguments of run() that _enrich_entry depends on.
Features ==
    {"enrich_english", "generate_audio", "generate_pitch", "generate_stroke",
     "generate_example"}
RunOptions ==
    {o \in [enrich_english : BOOLEAN, generate_audio : BOOLEAN,
            generate_pitch : BOOLEAN, generate_stroke : BOOLEAN,
            generate_example : BOOLEAN, offline : BOOLEAN] :
        Cardinality({f \in Features : ~o[f]}) <= MaxDisabled}

\* The defaults of run().
DefaultOptions ==
    [enrich_english |-> TRUE, generate_audio |-> TRUE,
     generate_pitch |-> TRUE, generate_stroke |-> TRUE,
     generate_example |-> TRUE, offline |-> FALSE]

\* What the network answers while one record is enriched: every request
\* raises, every service answers but knows nothing of the word, or every
\* service answers with data.
NetDown(word) ==
    [jisho |-> "fail", kanji |-> "fail", pitch |-> "fail",
     ex |-> [i \in 1..Len(SearchWords(word)) |-> "fail"],
     stroke |-> "fail", tts |-> "fail"]
NetEmpty(word) ==
    [jisho |-> "nomatch", kanji |-> "fail", pitch |-> "notag",
     ex |-> [i \in 1..Len(SearchWords(word)) |-> "none"],
     stroke |-> "fail", tts |-> "ok"]
NetFull(word) ==
    [jisho |-> "match", kanji |-> "ok", pitch |-> "tag",
     ex |-> [i \in 1..Len(SearchWords(word)) |-> "vie"],
     stroke |-> "ok", tts |-> "ok"]
Networks(word) == {NetDown(word), NetEmpty(word), NetFull(word)}

\* A VocabEntry as the parser hands it over: the enrichment fields at
\* their defaults.
NewEntry(word) ==
    [word |-> word, reading |-> "parsed", meaning_en |-> "",
     pitch_pattern |-> "", examples |-> "", kanji_kun |-> "",
     stroke_order_svg |-> "", audio_file |-> "", word_type |-> "",
     synonyms |-> ""]

\* What the curated tables and the cache files hold for the fields of a
\* word ("none": nothing).
Available(word) ==
    [meaning_en |-> englishCache[word],
     pitch_pattern |->
        IF word \in PITCH_DB THEN CuratedPattern ELSE pitchCache[word],
     examples |->
        IF InSentences(SENTENCES, word) THEN "curated" ELSE examplesCache[word],
     kanji_kun |->
        IF FirstKanji(word) # "none" THEN kanjiCache[FirstKanji(word)] ELSE "none"]

NoRecord ==
    [word |-> "none", attempted |-> FALSE, delay |-> FALSE,
     prevDelay |-> FALSE, allDown |-> TRUE,
     pre |-> [meaning_en |-> "none", pitch_pattern |-> "none",
              examples |-> "none", kanji_kun |-> "none"],
     entry |-> NewEntry("none")]

\* The examples field: the sentences, each followed by its audio tag.
ExamplesHtml(examples, audio_tag) ==
    IF audio_tag THEN <<examples, "[sound]">> ELSE <<examples>>

\* _enrich_entry without the reset: the flag of the record before stays.
ResetLastApiCalled_Kept(before) == before

\* The first statement of _enrich_entry: _last_api_called, whatever it
\* was (before), is cleared.
ResetLastApiCalled(before) == FALSE

\* JapaneseVocabPipeline._enrich_entry(entry, ...) on the entry of word,
\* under the options o of the run, n being what the network answers.  The
\* result holds the files and class attributes after the call, the entry,
\* _last_api_called, and whether any request was sent (attempted).
\* Steps without cache or network (KanjiDB, RadicalDB, frequency, JLPT,
\* furigana, conjugation) are not part of it.
_enrich_entry(word, o, n) ==
    LET reading == JishoAPI_get_reading(jishoCache, JishoAPI_last_api_called,
                                        word, n.jisho)
        first_kanji == FirstKanji(word)
        readings ==
            IF first_kanji # "none"
            THEN KanjiAPI_get_readings(kanjiCache, first_kanji, n.kanji)
            ELSE [cache |-> kanjiCache, flag |-> KanjiAPI_last_api_called,
                  result |-> "", net |-> 0, fetched |-> FALSE,
                  read |-> FALSE, wrote |-> FALSE]
        word_type == JishoAPI_get_word_type(reading.cache, reading.flag,
                                            word, n.jisho)
        synonyms == JishoAPI_get_synonyms_antonyms(word_type.cache,
                                                   word_type.flag, word, n.jisho)
        examples ==
            IF o.generate_example
            THEN ExampleSentencesDB_get_examples(examplesCache, SENTENCES,
                                                 word, o.offline, n.ex)
            ELSE [cache |-> examplesCache,
                  flag |-> ExampleSentencesDB_last_api_called,
                  result |-> "[]", net |-> 0, fetched |-> FALSE,
                  read |-> FALSE, wrote |-> FALSE]
        has_examples == o.generate_example /\ examples.result # "[]"
        ex_audio == has_examples /\ o.generate_audio /\ ~o.offline
        ex_tts == ex_audio /\ ~exAudio[word]
        example_audio_generated == ex_tts /\ n.tts = "ok"
        audio_tag == ex_audio /\ (exAudio[word] \/ example_audio_generated)
        do_english == o.enrich_english /\ ~o.offline
        english ==
            IF do_english
            THEN JishoAPI_get_english_meaning(synonyms.cache, englishCache,
                                              word, n.jisho)
            ELSE [jcache |-> synonyms.cache, ecache |-> englishCache,
                  flag |-> synonyms.flag, result |-> "", net |-> 0,
                  fetched |-> FALSE, read |-> FALSE, wrote |-> FALSE]
        pitch ==
            IF o.generate_pitch
            THEN PitchAccentAPI_get_pitch_pattern(pitchCache, PITCH_DB, word,
                                                  o.offline, n.pitch)
            ELSE [cache |-> pitchCache,
                  flag |-> PitchAccentAPI_last_api_called,
                  result |-> "", net |-> 0, fetched |-> FALSE,
                  read |-> FALSE, wrote |-> FALSE]
        do_stroke == o.generate_stroke /\ first_kanji # "none"
        stroke_api_called ==
            do_stroke /\ ~strokeCache[first_kanji] /\ ~o.offline
        stroke_saved == stroke_api_called /\ n.stroke = "ok"
        audio_exists == o.generate_audio /\ wordAudio[word]
        audio_api_called == o.generate_audio /\ ~wordAudio[word] /\ ~o.offline
        audio_saved == audio_api_called /\ n.tts = "ok"
    IN  [jishoCache |-> english.jcache,
         englishCache |-> english.ecache,
         kanjiCache |-> readings.cache,
         pitchCache |-> pitch.cache,
         examplesCache |-> examples.cache,
         strokeCache |->
            IF stroke_saved
            THEN [strokeCache EXCEPT ![first_kanji] = TRUE] ELSE strokeCache,
         wordAudio |->
            IF audio_saved THEN [wordAudio EXCEPT ![word] = TRUE] ELSE wordAudio,
         exAudio |->
            IF example_audio_generated
            THEN [exAudio EXCEPT ![word] = TRUE] ELSE exAudio,
         jishoFlag |-> english.flag,
         kanjiFlag |-> readings.flag,
         pitchFlag |-> pitch.flag,
         exFlag |-> examples.flag,
         last_api_called |->
            \/ ResetLastApiCalled(_last_api_called)
            \/ o.generate_example /\ examples.flag
            \/ example_audio_generated
            \/ do_english /\ english.flag
            \/ o.generate_pitch /\ pitch.flag
            \/ stroke_api_called
            \/ audio_api_called,
         attempted |->
            \/ reading.fetched \/ readings.fetched
            \/ word_type.fetched \/ synonyms.fetched
            \/ examples.fetched \/ ex_tts
            \/ english.fetched \/ pitch.fetched
            \/ stroke_api_called \/ audio_api_called,
         entry |->
            [word |-> word,
             reading |-> IF reading.result # "" THEN reading.result ELSE "parsed",
             meaning_en |-> IF do_english THEN english.result ELSE "",
             pitch_pattern |-> IF o.generate_pitch THEN pitch.result ELSE "",
             examples |->
                IF has_examples
                THEN ExamplesHtml(examples.result, audio_tag) ELSE "",
             kanji_kun |-> readings.result,
             stroke_order_svg |->
                IF do_stroke /\ (strokeCache[first_kanji] \/ stroke_saved)
                THEN "svg" ELSE "",
             audio_file |->
                IF audio_exists \/ audio_saved THEN "mp3" ELSE "",
             word_type |-> word_type.result,
             synonyms |-> synonyms.result]]

\* The exceptions that leave _enrich_entry under the network answers n:
\* none, every request is inside a try whose except returns the empty
\* value (lookup, _fetch_from_jisho, _fetch_tatoeba, _fetch_jisho_sentences,
\* generate_audio, and the try around get_stroke_order_svg).
Raised_Uncaught(n) == n.jisho = "fail"
Raised(n) == FALSE

\* JapaneseVocabPipeline._get_entry_key(entry); meaning_vi is what the
\* parser read and is the same for every record of a word here.
_get_entry_key(entry) == <<entry.word, entry.reading>>

\* JapaneseVocabPipeline.clear_checkpoint(): the file is removed and the
\* set emptied.
clear_checkpoint == [processed |-> {}, checkpoint |-> {}]

\* run(...) up to the loop over the parsed records, parse() returning
\* parsed records.
Run(o, force_restart, parsed) ==
    /\ phase = "idle"
    /\ phase' = "running"
    /\ opts' = o
    /\ _last_api_called' = FALSE
    /\ entries' = parsed
    /\ processed' = IF force_restart THEN clear_checkpoint.processed
                                     ELSE processed
    /\ checkpoint' = IF force_restart THEN clear_checkpoint.checkpoint
                                      ELSE checkpoint
    /\ UNCHANGED <<cacheVars, tableVars, flagVars, last, mediaVars,
                   total_words, deck, rec, radicalVars, pureCall>>

\* One round of the loop of run(): the record is enriched, added to the
\* deck, and the rate limit delay is slept when _last_api_called is set.
ProcessEntry(word, n) ==
    /\ phase = "running"
    /\ total_words < entries
    /\ \E e \in {_enrich_entry(word, opts, n)} :
           /\ jishoCache' = e.jishoCache
           /\ englishCache' = e.englishCache
           /\ kanjiCache' = e.kanjiCache
           /\ pitchCache' = e.pitchCache
           /\ examplesCache' = e.examplesCache
           /\ strokeCache' = e.strokeCache
           /\ wordAudio' = e.wordAudio
           /\ exAudio' = e.exAudio
           /\ JishoAPI_last_api_called' = e.jishoFlag
           /\ KanjiAPI_last_api_called' = e.kanjiFlag
           /\ PitchAccentAPI_last_api_called' = e.pitchFlag
           /\ ExampleSentencesDB_last_api_called' = e.exFlag
           /\ _last_api_called' = e.last_api_called
           /\ rec' = [word |-> word, attempted |-> e.attempted,
                      delay |-> e.last_api_called, prevDelay |-> rec.delay,
                      allDown |-> rec.allDown /\ n = NetDown(word),
                      pre |-> Available(word), entry |-> e.entry]
    /\ total_words' = total_words + 1
    /\ IF Raised(n)
       THEN phase' = "aborted" /\ deck' = deck
       ELSE phase' = phase /\ deck' = Append(deck, total_words + 1)
    /\ UNCHANGED <<tableVars, last, opts, entries, processed, checkpoint,
                   radicalVars, pureCall>>

\* run(...) after the loop: the deck is exported.
Export ==
    /\ phase = "running"
    /\ total_words = entries
    /\ phase' = "done"
    /\ UNCHANGED <<cacheVars, tableVars, flagVars, last, mediaVars,
                   opts, entries, total_words, deck, processed, checkpoint,
                   _last_api_called, rec, radicalVars, pureCall>>

\* ------------------------------------------------------------------------
\* RadicalDB
\* ------------------------------------------------------------------------

\* RadicalDB._jamdict_cache as the class defines it: empty.
NoComponents == [k \in RadicalKanji |-> "none"]

NoComponentsCall ==
    [key |-> "none", entry |-> "none", others |-> "none",
     result |-> "", queried |-> FALSE]

\* The jamdict cache part of RadicalDB._load(): the whole file is parsed,
\* and a file that does not parse leaves the cache empty.
RadicalDB_load(file) ==
    IF \E k \in RadicalKanji : file[k] = "corrupt"
    THEN NoComponents
    ELSE file

\* RadicalDB._get_components(kanji) on the loaded cache: the cached
\* components, or those jamdict returns, which are cached in memory.
RadicalDB_get_components(cache, jamdict, kanji) ==
    IF cache[kanji] # "none"
    THEN [cache |-> cache, result |-> cache[kanji], queried |-> FALSE]
    ELSE IF jamdict
    THEN [cache |-> [cache EXCEPT ![kanji] = "components"],
          result |-> "components", queried |-> TRUE]
    ELSE [cache |-> cache, result |-> "", queried |-> FALSE]

\* A caller runs RadicalDB._get_components(kanji), _load() included.
CallGetComponents(kanji) ==
    \E r \in {RadicalDB_get_components(
                  IF _loaded THEN _jamdict_cache
                             ELSE RadicalDB_load(jamdict_cache_file),
                  _jamdict, kanji)} :
        /\ _loaded' = TRUE
        /\ _jamdict_cache' = r.cache
        /\ radLast' = [key |-> kanji, entry |-> jamdict_cache_file[kanji],
                       others |->
                          IF \E k \in RadicalKanji \ {kanji} :
                                 jamdict_cache_file[k] = "corrupt"
                          THEN "corrupt" ELSE "intact",
                       result |-> r.result, queried |-> r.queried]
        /\ UNCHANGED <<cacheVars, tableVars, flagVars, last, mediaVars,
                       pipeVars, jamdict_cache_file, _jamdict, pureCall>>

\* The file of one key of the pitch cache, or the entry of one kanji in
\* jamdict_cache.json, is damaged on disk.
Corrupt(source, key) ==
    /\ \/ /\ source = "pitch"
          /\ pitchCache[key] \notin {"none", "corrupt"}
          /\ pitchCache' = [pitchCache EXCEPT ![key] = "corrupt"]
          /\ UNCHANGED jamdict_cache_file
       \/ /\ source = "radical"
          /\ jamdict_cache_file[key] \notin {"none", "corrupt"}
          /\ jamdict_cache_file' =
                 [jamdict_cache_file EXCEPT ![key] = "corrupt"]
          /\ UNCHANGED pitchCache
    /\ UNCHANGED <<jishoCache, englishCache, kanjiCache, examplesCache,
                   tableVars, flagVars, last, mediaVars, pipeVars,
                   _jamdict, _loaded, _jamdict_cache, radLast, pureCall>>

\* The process ends and a new one starts: the class attributes are back at
\* their defaults and _load reads the curated tables from the data files,
\* whatever these hold by then; the files written so far stay.
Restart ==
    /\ PITCH_DB' \in SUBSET Words
    /\ SENTENCES' \in SUBSET SearchKeys
    /\ JishoAPI_last_api_called' = FALSE
    /\ KanjiAPI_last_api_called' = FALSE
    /\ PitchAccentAPI_last_api_called' = FALSE
    /\ ExampleSentencesDB_last_api_called' = FALSE
    /\ last' = NoCall
    /\ phase' = "idle"
    /\ opts' = DefaultOptions
    /\ entries' = 0
    /\ total_words' = 0
    /\ deck' = <<>>
    /\ processed' = checkpoint
    /\ checkpoint' = checkpoint
    /\ _last_api_called' = FALSE
    /\ rec' = NoRecord
    /\ _loaded' = FALSE
    /\ _jamdict_cache' = NoComponents
    /\ radLast' = NoComponentsCall
    /\ UNCHANGED <<cacheVars, mediaVars, jamdict_cache_file, _jamdict,
                   pureCall>>

vars == <<cacheVars, tableVars, flagVars, last, mediaVars, pipeVars,
          radicalVars, pureCall>>

\* No call of such a function is under way.
NoPureCall ==
    [op |-> "none", word |-> <<>>, reading |-> <<>>, kakasi |-> FALSE,
     returned |-> FALSE, result |-> <<>>]


\* ------------------------------------------------------------------------
\* FuriganaGenerator
\* ------------------------------------------------------------------------

\* Text is a sequence of characters.  One kanji, three hiragana and the
\* katakana of one of them stand for the scripts the code tells apart.
KanjiChars == {"K"}
HiraganaChars == {"a", "ga", "ru"}
KatakanaChars == {"GA"}
WordChars == KanjiChars \cup HiraganaChars \cup KatakanaChars
KanaChars == HiraganaChars \cup KatakanaChars

\* The longest word and the longest reading.
MaxWordLen == 3
MaxReadingLen == 3

\* The texts of at most n characters of the set chars.
Texts(chars, n) == UNION {[1..k -> chars] : k \in 0..n}

_is_kanji(c) == c \in KanjiChars
_is_hiragana(c) == c \in HiraganaChars
_is_katakana(c) == c \in KatakanaChars

\* chr(ord(c) - 0x60) of a katakana character.
HiraganaOf(c) == IF c = "GA" THEN "ga" ELSE c

\* FuriganaGenerator._katakana_to_hiragana(text)
_katakana_to_hiragana(text) ==
    [i \in 1..Len(text) |->
        IF _is_katakana(text[i]) THEN HiraganaOf(text[i]) ELSE text[i]]

\* ''.join(...) of the pieces of a sequence of texts.
RECURSIVE Join(_)
Join(pieces) ==
    IF pieces = <<>> THEN <<>> ELSE Head(pieces) \o Join(Tail(pieces))

\* What pykakasi reads a character as: a kanji by a reading of its own,
\* kana as hiragana.
KakasiReading(c) == IF _is_kanji(c) THEN <<"a", "ru">> ELSE <<HiraganaOf(c)>>

\* FuriganaGenerator._get_full_reading(word); kakasi tells whether
\* pykakasi is installed.
_get_full_reading(word, kakasi) ==
    IF ~kakasi THEN <<>>
    ELSE Join([i \in 1..Len(word) |-> KakasiReading(word[i])])

\* text[from:] and text[from:to] of Python, positions counted from 0.
SliceFrom(text, from) == SubSeq(text, from + 1, Len(text))
Slice(text, from, to) == SubSeq(text, from + 1, to)

\* needle in hay
Contains(hay, needle) ==
    \E p \in 0..(Len(hay) - Len(needle)) :
        Slice(hay, p, p + Len(needle)) = needle

\* The number of characters of text that satisfy Test.
Count(text, Test(_)) == Cardinality({i \in 1..Len(text) : Test(text[i])})

\* The katakana characters a word starts with.
RECURSIVE kata_prefix(_)
kata_prefix(word) ==
    IF word # <<>> /\ _is_katakana(Head(word))
    THEN <<Head(word)>> \o kata_prefix(Tail(word))
    ELSE <<>>

\* FuriganaGenerator._validate_reading(word, reading)
_validate_reading(word, reading, kakasi) ==
    LET word_kanji == Count(word, _is_kanji)
        word_kana == Count(word, LAMBDA c : _is_hiragana(c) \/ _is_katakana(c))
        reading_normalized == _katakana_to_hiragana(reading)
        word_kana_parts == SelectSeq(word, _is_hiragana)
        min_expected_len == word_kanji + word_kana
        full_reading == _get_full_reading(word, kakasi)
        prefix == kata_prefix(word)
    IN  IF word = <<>> \/ reading = <<>> THEN reading
        ELSE IF word_kanji = 0 THEN reading
        ELSE IF word_kana_parts # <<>>
                /\ Contains(reading_normalized, word_kana_parts)
        THEN reading
        ELSE IF /\ Len(reading_normalized) < min_expected_len
                /\ full_reading # <<>>
                /\ Len(full_reading) > Len(reading_normalized)
        THEN IF prefix # <<>>
             THEN prefix \o SliceFrom(full_reading, Len(prefix))
             ELSE full_reading
        ELSE reading

\* <ruby>text<rt>rt</rt></ruby>
Ruby(text, rt) == <<"<ruby>">> \o text \o <<"<rt>">> \o rt \o <<"</rt></ruby>">>

\* The segmentation loop of generate: the runs of the first n characters of
\* word, each a text with its is_kanji.
RECURSIVE Segments(_, _)
Segments(word, n) ==
    IF n = 0 THEN <<>>
    ELSE LET segments == Segments(word, n - 1)
             c == word[n]
             last_ == Len(segments)
         IN  IF n > 1 /\ segments[last_].is_kanji = _is_kanji(c)
             THEN [segments EXCEPT ![last_].text = Append(@, c)]
             ELSE Append(segments, [text |-> <<c>>, is_kanji |-> _is_kanji(c)])

\* hay.find(needle, start) with the last match instead of the first.
Find_Last(hay, needle, start) ==
    LET matches == {p \in start..(Len(hay) - Len(needle)) :
                      Slice(hay, p, p + Len(needle)) = needle}
    IN  IF matches = {} THEN -1
        ELSE CHOOSE p \in matches : \A q \in matches : q <= p

\* hay.find(needle, start)
Find(hay, needle, start) ==
    LET matches == {p \in start..(Len(hay) - Len(needle)) :
                      Slice(hay, p, p + Len(needle)) = needle}
    IN  IF matches = {} THEN -1
        ELSE CHOOSE p \in matches : \A q \in matches : p <= q

\* result.endswith(text) and result[:-len(text)]
EndsWith(result, text) ==
    /\ Len(text) <= Len(result)
    /\ SubSeq(result, Len(result) - Len(text) + 1, Len(result)) = text

\* result[:-n] that drops nothing.
DropLast_Nothing(result, n) == result

\* result[:-n]
DropLast(result, n) == SubSeq(result, 1, Len(result) - n)

\* The matching loop of generate over the first i segments: result and
\* reading_pos after them.
RECURSIVE MatchSegments(_, _, _)
MatchSegments(segments, reading, i) ==
    IF i = 0 THEN [result |-> <<>>, reading_pos |-> 0]
    ELSE
    LET before == MatchSegments(segments, reading, i - 1)
        result == before.result
        reading_pos == before.reading_pos
        seg_text == segments[i].text
        reading_hira == _katakana_to_hiragana(reading)
        seg_hira == _katakana_to_hiragana(seg_text)
        match_pos == Find(reading_hira, seg_hira, reading_pos)
        kanji_reading == Slice(reading, reading_pos, match_pos)
        \* the kanji segments right before segment i: segments alternate
        kanji_text ==
            IF i > 1 /\ segments[i - 1].is_kanji
            THEN segments[i - 1].text ELSE <<>>
        annotated ==
            IF match_pos > reading_pos /\ kanji_text # <<>> /\ kanji_reading # <<>>
            THEN (IF EndsWith(result, kanji_text)
                  THEN DropLast(result, Len(kanji_text)) ELSE result)
                 \o Ruby(kanji_text, kanji_reading)
            ELSE result
    IN  IF segments[i].is_kanji
        THEN [result |-> result \o seg_text, reading_pos |-> reading_pos]
        ELSE IF match_pos # -1
        THEN [result |-> annotated \o seg_text,
              reading_pos |-> match_pos + Len(seg_hira)]
        ELSE [result |-> result \o seg_text, reading_pos |-> reading_pos]

\* generate without its first test: every word is taken to hold kanji.
has_kanji_Always(word) == TRUE

\* has_kanji of generate
has_kanji(word) == \E i \in 1..Len(word) : _is_kanji(word[i])

\* FuriganaGenerator.generate(word, reading)
FuriganaGenerator_generate(word, reading_in, kakasi) ==
    LET validated == _validate_reading(word, reading_in, kakasi)
        reading ==
            IF validated = <<>> THEN _get_full_reading(word, kakasi)
            ELSE validated
        segments == Segments(word, Len(word))
        matched == MatchSegments(segments, reading, Len(segments))
        kanji_text == segments[Len(segments)].text
        result ==
            IF /\ segments # <<>>
               /\ segments[Len(segments)].is_kanji
               /\ matched.reading_pos < Len(reading)
               /\ EndsWith(matched.result, kanji_text)
            THEN DropLast(matched.result, Len(kanji_text))
                 \o Ruby(kanji_text, SliceFrom(reading, matched.reading_pos))
            ELSE matched.result
    IN  IF ~has_kanji(word) THEN word
        ELSE IF word = validated THEN word
        ELSE IF reading = <<>> THEN word
        ELSE IF Len(segments) = 1 /\ segments[1].is_kanji
        THEN Ruby(word, reading)
        ELSE IF result = <<>> \/ result = word THEN Ruby(word, reading)
        ELSE result

\* Inputs of generate and of _validate_reading: a word and the reading the
\* caller has for it.
FuriganaInputs ==
    [op : {"generate", "_validate_reading"}, word : Texts(WordChars, MaxWordLen),
     reading : Texts(KanaChars, MaxReadingLen), kakasi : BOOLEAN,
     returned : {FALSE}, result : {<<>>}]

\* FuriganaGenerator.generate(word, reading) returns.
CallGenerate ==
    /\ pureCall.op = "generate" /\ ~pureCall.returned
    /\ pureCall' =
          [pureCall EXCEPT
              !.returned = TRUE,
              !.result = FuriganaGenerator_generate(pureCall.word,
                                                    pureCall.reading,
                                                    pureCall.kakasi)]
    /\ UNCHANGED <<cacheVars, tableVars, flagVars, last, mediaVars, pipeVars,
                   radicalVars>>

\* FuriganaGenerator._validate_reading(word, reading) returns.
CallValidateReading ==
    /\ pureCall.op = "_validate_reading" /\ ~pureCall.returned
    /\ pureCall' =
          [pureCall EXCEPT
              !.returned = TRUE,
              !.result = _validate_reading(pureCall.word, pureCall.reading,
                                           pureCall.kakasi)]
    /\ UNCHANGED <<cacheVars, tableVars, flagVars, last, mediaVars, pipeVars,
                   radicalVars>>

\* ------------------------------------------------------------------------
\* Mora segmentation: PitchAccentAPI.split_morae and pitch_accent.split_morae
\* ------------------------------------------------------------------------

\* Kana of a reading: full size kana, and small kana (x...): hiragana
\* small ya and yo, hiragana small a.
MoraChars == {"ki", "shi", "u", "n", "xyo", "xya", "xa"}

\* The longest text that is split.
MaxMoraeLen == 4

\* small_kana of PitchAccentAPI.split_morae, with no character in it.
PitchAccentAPI_small_kana_Empty == {}

\* small_kana of PitchAccentAPI.split_morae: small ya, yu, yo in hiragana
\* and katakana, small katakana vowels.
PitchAccentAPI_small_kana ==
    {"xya", "xyu", "xyo", "XYA", "XYU", "XYO", "XA", "XI", "XU", "XE", "XO"}

\* small_kana of pitch_accent.split_morae with the final n in it.
small_kana_WithN ==
    {"xya", "xyu", "xyo", "XYA", "XYU", "XYO", "XA", "XI", "XU", "XE", "XO",
     "xa", "xi", "xu", "xe", "xo", "n"}

\* small_kana of pitch_accent.split_morae: the small hiragana vowels too.
small_kana ==
    {"xya", "xyu", "xyo", "XYA", "XYU", "XYO", "XA", "XI", "XU", "XE", "XO",
     "xa", "xi", "xu", "xe", "xo"}

\* The while loop of both functions, from position i (counted from 0).
RECURSIVE SplitFrom(_, _, _)
SplitFrom(text, i, small) ==
    IF ~(i < Len(text)) THEN <<>>
    ELSE IF i + 1 < Len(text) /\ text[i + 2] \in small
    THEN <<Slice(text, i, i + 2)>> \o SplitFrom(text, i + 2, small)
    ELSE <<<<text[i + 1]>>>> \o SplitFrom(text, i + 1, small)

\* PitchAccentAPI.split_morae(text)
PitchAccentAPI_split_morae(text) == SplitFrom(text, 0, PitchAccentAPI_small_kana)

\* pitch_accent.split_morae(text)
split_morae(text) ==
    IF text = <<>> THEN <<>> ELSE SplitFrom(text, 0, small_kana)

\* Inputs of the two functions: a reading.
MoraeInputs ==
    [op : {"PitchAccentAPI.split_morae", "split_morae"}, word : {<<>>},
     reading : Texts(MoraChars, MaxMoraeLen), kakasi : {FALSE},
     returned : {FALSE}, result : {<<>>}]

\* PitchAccentAPI.split_morae(text) returns.
CallPitchAccentAPISplitMorae ==
    /\ pureCall.op = "PitchAccentAPI.split_morae" /\ ~pureCall.returned
    /\ pureCall' =
          [pureCall EXCEPT
              !.returned = TRUE,
              !.result = PitchAccentAPI_split_morae(pureCall.reading)]
    /\ UNCHANGED <<cacheVars, tableVars, flagVars, last, mediaVars, pipeVars,
                   radicalVars>>

\* pitch_accent.split_morae(text) returns.
CallSplitMorae ==
    /\ pureCall.op = "split_morae" /\ ~pureCall.returned
    /\ pureCall' =
          [pureCall EXCEPT
              !.returned = TRUE,
              !.result = split_morae(pureCall.reading)]
    /\ UNCHANGED <<cacheVars, tableVars, flagVars, last, mediaVars, pipeVars,
                   radicalVars>>

InitProgram ==
    /\ jishoCache = [w \in Words |-> "none"]
    /\ englishCache = [w \in Words |-> "none"]
    /\ kanjiCache = [k \in Kanji |-> "none"]
    /\ pitchCache = [w \in CacheWords |-> "none"]
    /\ examplesCache = [w \in Words |-> "none"]
    /\ strokeCache = [k \in Kanji |-> FALSE]
    /\ wordAudio = [w \in Words |-> FALSE]
    /\ exAudio = [w \in Words |-> FALSE]
    /\ PITCH_DB \in SUBSET Words
    /\ SENTENCES \in SUBSET SearchKeys
    /\ JishoAPI_last_api_called = FALSE
    /\ KanjiAPI_last_api_called = FALSE
    /\ PitchAccentAPI_last_api_called = FALSE
    /\ ExampleSentencesDB_last_api_called = FALSE
    /\ last = NoCall
    /\ phase = "idle"
    /\ opts = DefaultOptions
    /\ entries = 0
    /\ total_words = 0
    /\ deck = <<>>
    /\ processed = {}
    /\ checkpoint = {}
    /\ _last_api_called = FALSE
    /\ rec = NoRecord
    /\ _loaded = FALSE
    /\ _jamdict_cache = NoComponents
    /\ radLast = NoComponentsCall

\* A fresh checkout with jamdict installed: no jamdict_cache.json yet.
Init ==
    /\ InitProgram
    /\ jamdict_cache_file = [k \in RadicalKanji |-> "none"]
    /\ _jamdict = TRUE
    /\ pureCall = NoPureCall

\* An installation whose data directory has a jamdict_cache.json, with or
\* without jamdict, and no curated sentences.
InitInstalled ==
    /\ InitProgram
    /\ SENTENCES = {}
    /\ jamdict_cache_file \in [RadicalKanji -> {"none", "components"}]
    /\ _jamdict \in BOOLEAN
    /\ pureCall = NoPureCall

\* The resolution methods, called in any order by any caller.
Next ==
    \/ \E word \in Words, o \in JishoOutcomes : CallJishoLookup(word, o)
    \/ \E word \in Words, o \in JishoOutcomes : CallGetEnglishMeaning(word, o)
    \/ \E kanji \in KanjiKeys, o \in KanjiOutcomes : CallKanjiLookup(kanji, o)
    \/ \E word \in Words, offline \in BOOLEAN, o \in PitchOutcomes :
           CallGetPitchPattern(word, offline, o)
    \/ \E word \in Words, offline \in BOOLEAN :
           \E o \in ExOutcomes(word) : CallGetExamples(word, offline, o)
    \/ Restart

Spec == Init /\ [][Next]_vars

\* The command line program: runs of the pipeline, one per process.
NextPipeline ==
    \/ \E o \in RunOptions, force_restart \in BOOLEAN, parsed \in 0..MaxEntries :
           Run(o, force_restart, parsed)
    \/ \E word \in Words : \E n \in Networks(word) : ProcessEntry(word, n)
    \/ Export
    \/ Restart

SpecPipeline == Init /\ [][NextPipeline]_vars

\* One run of the command line program in a fresh output directory.  The
\* loop of run() goes on and ends: every request has a timeout or raises.
NextRun ==
    \/ \E o \in RunOptions, force_restart \in BOOLEAN, parsed \in 0..MaxEntries :
           Run(o, force_restart, parsed)
    \/ \E word \in Words : \E n \in Networks(word) : ProcessEntry(word, n)
    \/ Export

\* The resolution methods of the sources whose cache entries get damaged,
\* in one process.
CorruptTargets ==
    ({"pitch"} \X CacheWords) \cup ({"radical"} \X RadicalKanji)
NextCorrupt ==
    \/ \E word \in CacheWords, offline \in BOOLEAN, o \in PitchOutcomes :
           CallGetPitchPattern(word, offline, o)
    \/ \E kanji \in RadicalKanji : CallGetComponents(kanji)
    \/ \E t \in CorruptTargets : Corrupt(t[1], t[2])

SpecCorrupt == InitInstalled /\ [][NextCorrupt]_vars

\* FuriganaGenerator.generate and _validate_reading on every word and
\* reading up to the bounds.
InitFurigana ==
    /\ InitProgram
    /\ PITCH_DB = {} /\ SENTENCES = {}
    /\ jamdict_cache_file = [k \in RadicalKanji |-> "none"]
    /\ _jamdict = TRUE
    /\ pureCall \in FuriganaInputs

NextFurigana == CallGenerate \/ CallValidateReading

SpecFurigana == InitFurigana /\ [][NextFurigana]_vars

\* The two split_morae on every text up to the bound.
InitMorae ==
    /\ InitProgram
    /\ PITCH_DB = {} /\ SENTENCES = {}
    /\ jamdict_cache_file = [k \in RadicalKanji |-> "none"]
    /\ _jamdict = TRUE
    /\ pureCall \in MoraeInputs

NextMorae == CallPitchAccentAPISplitMorae \/ CallSplitMorae

SpecMorae == InitMorae /\ [][NextMorae]_vars

SpecRun ==
    /\ Init /\ [][NextRun]_vars
    /\ WF_vars(\E word \in Words : \E n \in Networks(word) : ProcessEntry(word, n))
    /\ WF_vars(Export)

\* ------------------------------------------------------------------------
\* Properties of the resolution methods (Spec)
\* ------------------------------------------------------------------------

\* The cache entry of a key of a source, as it is now.
EntryOf(op, key) ==
    CASE op = "jisho" -> jishoCache[key]
      [] op = "english" -> englishCache[key]
      [] op = "kanji" -> IF key \in Kanji THEN kanjiCache[key] ELSE "none"
      [] op = "pitch" -> pitchCache[key]
      [] op = "examples" -> examplesCache[key]
      [] OTHER -> "none"

\* The unknown/empty value a source returns.
Unknown(op) ==
    CASE op = "jisho" -> "{}"
      [] op = "english" -> ""
      [] op = "kanji" -> "{}"
      [] op = "pitch" -> "?"
      [] op = "examples" -> "[]"
      [] OTHER -> ""

Called == last.op # "none"

\* C1: a resolution of a key that had a persisted cache entry before the
\* call, payload or sentinel, does not run the fetch.
C1_NoFetchOncePersisted ==
    (Called /\ last.pre # "none") => ~last.fetched

\* C5: an online resolution of an uncached key whose fetch fails returns
\* the unknown value and leaves a persisted entry for the key.
C5_FailurePersistsSentinel ==
    (Called /\ last.fetched /\ last.outcome = "fail")
        => /\ last.result = Unknown(last.op)
           /\ EntryOf(last.op, last.key) # "none"

\* C6: when a key is resolved twice in a row, online the first time and
\* without network the second time (offline, or every request failing),
\* both calls return the same value and at most one of them fetches.
C6_Idempotent ==
    (Called /\ last.again /\ last.prevOnline
            /\ (last.offline \/ last.outcome \in {"na", "fail"}))
        => /\ last.result = last.prevResult
           /\ ~(last.prevFetched /\ last.fetched)

\* C7: an offline resolution of a key without curated entry and without
\* cache entry returns the unknown value, sends no request and leaves the
\* key without cache entry; an online resolution of such a key fetches.
C7_OfflineLeavesCache ==
    (Called /\ ~last.curated /\ last.pre = "none" /\ last.op \in {"pitch", "examples"})
        => IF last.offline
           THEN /\ last.result = Unknown(last.op)
                /\ ~last.fetched /\ ~last.wrote
                /\ EntryOf(last.op, last.key) = "none"
           ELSE last.fetched

C7_Witness ==
    /\ last.op \in {"pitch", "examples"}
    /\ last.offline /\ ~last.curated /\ last.pre = "none"
    /\ last.result = Unknown(last.op)

\* C8: a resolution of a key of the curated table returns the curated
\* value without looking at or writing the cache entry of the key, without
\* fetching, and with last_api_called False, whatever the cache holds and
\* whether offline or not.
C8_CuratedBypasses ==
    (Called /\ last.curated)
        => /\ last.result = (IF last.op = "pitch" THEN CuratedPattern ELSE "curated")
           /\ ~last.read /\ ~last.wrote /\ ~last.fetched /\ ~last.flag
           /\ EntryOf(last.op, last.key) = last.pre

C8_Witness ==
    /\ Called /\ last.curated /\ last.pre # "none" /\ ~last.offline
    /\ last.result \in {CuratedPattern, "curated"}

\* C10: after every resolution call the last_api_called of the source is
\* True exactly when the call ran the fetch step.
C10_FlagAccurate ==
    Called => (last.flag = last.fetched)

\* ------------------------------------------------------------------------
\* Properties of the pipeline (SpecPipeline)
\* ------------------------------------------------------------------------

Enriched == rec.word # "none"

\* C2: while a record is enriched in a run with offline=True, no request
\* is sent.
C2_OfflineNoFetch ==
    (Enriched /\ opts.offline) => ~rec.attempted

\* C3: when a request was sent while a record was enriched,
\* _last_api_called is True when _enrich_entry returns and the delay is
\* applied after the record.
C3_FetchSetsFlag ==
    (Enriched /\ rec.attempted) => (_last_api_called /\ rec.delay)

\* C4: the delay is applied after a record only if a request was sent
\* while that record was enriched.
C4_DelayOnlyAfterFetch ==
    (Enriched /\ rec.delay) => rec.attempted

C4_Witness ==
    /\ Enriched /\ rec.prevDelay
    /\ ~rec.delay /\ ~rec.attempted

\* C9: in an offline run, a field whose feature is on and whose value the
\* curated table or the cache holds before the record is filled with that
\* value.
C9_OfflineUsesCache ==
    (Enriched /\ opts.offline)
        => /\ (opts.enrich_english /\ rec.pre.meaning_en # "none")
                => rec.entry.meaning_en = DecodeMeaning(rec.pre.meaning_en)
           /\ (opts.generate_pitch /\ rec.pre.pitch_pattern # "none")
                => rec.entry.pitch_pattern = rec.pre.pitch_pattern
           /\ (opts.generate_example /\ rec.pre.examples \notin {"none", "[]"})
                => rec.entry.examples = ExamplesHtml(rec.pre.examples, FALSE)
           /\ (rec.pre.kanji_kun # "none")
                => rec.entry.kanji_kun = "kun_on"

\* C11: an online resolution of a key without curated entry and without
\* cache entry sends at most one request.
C11_AtMostOneFetch ==
    (Called /\ ~last.offline /\ ~last.curated /\ last.pre = "none")
        => last.net <= 1

\* ------------------------------------------------------------------------
\* Properties of one run (SpecRun)
\* ------------------------------------------------------------------------

\* What C12 says of a state: no exception has left _enrich_entry; once the
\* deck is exported add_entry was given every parsed record once, in
\* order; and a record enriched while every request failed has the
\* unknown/empty value in each field that neither the curated table nor
\* the cache nor the media files held.
C12_State ==
    /\ phase # "aborted"
    /\ Len(deck) = total_words
    /\ phase = "done" => deck = [i \in 1..entries |-> i]
    /\ (Enriched /\ rec.allDown)
        => /\ (rec.pre.meaning_en = "none" /\ jishoCache[rec.word] # "hit")
                => rec.entry.meaning_en = ""
           /\ rec.pre.pitch_pattern = "none"
                => rec.entry.pitch_pattern \in {"?", ""}
           /\ rec.pre.examples \in {"none", "[]"} => rec.entry.examples = ""
           /\ rec.pre.kanji_kun = "none" => rec.entry.kanji_kun = ""
           /\ ~strokeCache[FirstKanji(rec.word)]
                => rec.entry.stroke_order_svg = ""
           /\ ~wordAudio[rec.word] => rec.entry.audio_file = ""

C13_CheckpointHoldsProcessed ==
    (Enriched /\ Len(deck) >= 1)
        => /\ _get_entry_key(rec.entry) \in processed
           /\ _get_entry_key(rec.entry) \in checkpoint

\* ------------------------------------------------------------------------
\* Properties of damaged cache entries (SpecCorrupt)
\* ------------------------------------------------------------------------

\* C14: the resolution of a key whose own cache entry is intact returns
\* that entry without fetching or querying, whatever has happened to the
\* entries of the other keys; this for the pitch cache and the radical
\* decomposition cache.
C14_CorruptionIsLocal ==
    /\ (Called /\ ~last.curated /\ last.pre \notin {"none", "corrupt"})
        => (last.result = last.pre /\ ~last.fetched)
    /\ (radLast.key # "none" /\ radLast.entry = "components")
        => (radLast.result = "components" /\ ~radLast.queried)

\* ------------------------------------------------------------------------
\* Properties of the furigana functions (SpecFurigana)
\* ------------------------------------------------------------------------

Generated == pureCall.op = "generate" /\ pureCall.returned
Validated == pureCall.op = "_validate_reading" /\ pureCall.returned
WordHasKanji == \E i \in 1..Len(pureCall.word) : pureCall.word[i] \in KanjiChars

\* The reading generate aligns the word with: the validated reading, or
\* the transliteration when that is empty.
AlignedReading ==
    LET validated == _validate_reading(pureCall.word, pureCall.reading,
                                       pureCall.kakasi)
    IN  IF validated = <<>>
        THEN _get_full_reading(pureCall.word, pureCall.kakasi)
        ELSE validated

\* Where the walk of generate looks for the i-th run of the word: the
\* cursor before the run, and the position of the run at or after it.
CursorAt(i) ==
    MatchSegments(Segments(pureCall.word, Len(pureCall.word)),
                  AlignedReading, i - 1).reading_pos
\* The first position at or after from where needle is in hay, -1 when
\* there is none.
FirstOccurrence(hay, needle, from) ==
    LET places == {p \in from..(Len(hay) - Len(needle)) :
                     SubSeq(hay, p + 1, p + Len(needle)) = needle}
    IN  IF places = {} THEN -1
        ELSE CHOOSE p \in places : \A q \in places : p <= q
LocatedAt(i) ==
    FirstOccurrence(
        _katakana_to_hiragana(AlignedReading),
        _katakana_to_hiragana(Segments(pureCall.word, Len(pureCall.word))[i].text),
        CursorAt(i))
NonKanjiRuns ==
    {i \in 1..Len(Segments(pureCall.word, Len(pureCall.word))) :
        ~Segments(pureCall.word, Len(pureCall.word))[i].is_kanji}

\* C15: when the word holds kanji and one of its non-kanji runs is not
\* found in the reading at or after the cursor, generate returns the whole
\* word annotated with the whole reading.
C15_FallbackWholeWord ==
    (/\ Generated /\ WordHasKanji /\ AlignedReading # <<>>
     /\ \E i \in NonKanjiRuns : LocatedAt(i) = -1)
        => pureCall.result = Ruby(pureCall.word, AlignedReading)

\* C16: for a word without kanji generate returns the word, whatever the
\* reading.
C16_NoKanjiUnchanged ==
    (Generated /\ ~WordHasKanji) => pureCall.result = pureCall.word

C16_Witness ==
    /\ Generated /\ ~WordHasKanji
    /\ pureCall.word # <<>> /\ pureCall.reading # <<>>
    /\ pureCall.reading # pureCall.word
    /\ pureCall.result = pureCall.word

\* The runs of the word of the call.
WordSegments == Segments(pureCall.word, Len(pureCall.word))

\* C17: for a word made of a kanji run K and a non-kanji run S after it,
\* with a reading validation leaves as it is and in which S, kana folded,
\* first occurs at p >= 1, generate returns K annotated with reading[0:p]
\* followed by S; and in every word, a non-kanji run found past the cursor
\* gives the reading between the cursor and the match to the kanji run
\* right before it.
C17_PerRunAlignment ==
    (/\ Generated /\ WordHasKanji
     /\ pureCall.reading # <<>> /\ AlignedReading = pureCall.reading)
        => /\ (/\ Len(WordSegments) = 2 /\ WordSegments[1].is_kanji
               /\ LocatedAt(2) >= 1)
                => pureCall.result =
                      Ruby(WordSegments[1].text,
                           Slice(pureCall.reading, 0, LocatedAt(2)))
                      \o WordSegments[2].text
           /\ \A i \in NonKanjiRuns :
                (i > 1 /\ LocatedAt(i) > CursorAt(i))
                    => Contains(pureCall.result,
                                Ruby(WordSegments[i - 1].text,
                                     Slice(pureCall.reading, CursorAt(i),
                                           LocatedAt(i)))
                                \o WordSegments[i].text)

C17_Witness ==
    /\ Generated
    /\ pureCall.word = <<"K", "ga", "ru">>
    /\ pureCall.reading = <<"a", "ga", "ru">>
    /\ pureCall.result = <<"<ruby>", "K", "<rt>", "a", "</rt></ruby>", "ga", "ru">>

\* Every kana run of the word is found in the folded reading, one after
\* the other.
KanaRunsInOrder ==
    LET reading_normalized == _katakana_to_hiragana(pureCall.reading)
        RECURSIVE After(_)
        \* the cursor after the first i runs, -1 when one was not found
        After(i) ==
            IF i = 0 THEN 0
            ELSE LET cursor == After(i - 1)
                     seg == _katakana_to_hiragana(WordSegments[i].text)
                 IN  IF cursor = -1 THEN -1
                     ELSE IF WordSegments[i].is_kanji THEN cursor
                     ELSE IF FirstOccurrence(reading_normalized, seg, cursor) = -1
                     THEN -1
                     ELSE FirstOccurrence(reading_normalized, seg, cursor) + Len(seg)
    IN  After(Len(WordSegments)) # -1

\* The reading has a character for each kanji and each kana of the word.
LongEnough ==
    Len(pureCall.reading) >=
        Cardinality({i \in 1..Len(pureCall.word) : pureCall.word[i] \in WordChars})

\* The transliteration that replaces a rejected reading.
Transliteration ==
    LET full_reading == _get_full_reading(pureCall.word, pureCall.kakasi)
        prefix == kata_prefix(pureCall.word)
    IN  prefix \o SliceFrom(full_reading, Len(prefix))

\* C18: for a word with kanji and a reading, with pykakasi installed,
\* _validate_reading returns the reading when every kana run of the word
\* is in the folded reading in order and the reading has a character per
\* kanji and kana of the word, and the transliteration otherwise.
C18_ValidationAcceptsOnlyBoth ==
    (/\ Validated /\ WordHasKanji /\ pureCall.reading # <<>> /\ pureCall.kakasi)
        => pureCall.result =
              IF KanaRunsInOrder /\ LongEnough
              THEN pureCall.reading ELSE Transliteration

\* ------------------------------------------------------------------------
\* Properties of the mora segmentation (SpecMorae)
\* ------------------------------------------------------------------------

Split == pureCall.op \in {"PitchAccentAPI.split_morae", "split_morae"}
            /\ pureCall.returned

\* The small kana of the function that was called.
SmallKanaOfCall ==
    IF pureCall.op = "split_morae"
    THEN {"xya", "xyo", "xa"} ELSE {"xya", "xyo"}

\* The position (counted from 1) in the text of the first character of
\* the k-th mora of the result.
RECURSIVE StartOf(_)
StartOf(k) == IF k = 1 THEN 1 ELSE StartOf(k - 1) + Len(pureCall.result[k - 1])

\* C19: the morae are cut from left to right: a character followed by a
\* small kana makes a two character mora with it, any other character is
\* a mora alone; so ki-xyo-u gives [ki xyo, u], a mora has one or two
\* characters and the second of two is a small kana.
C19_MoraScan ==
    Split =>
        /\ Join(pureCall.result) = pureCall.reading
        /\ \A k \in 1..Len(pureCall.result) :
              LET i == StartOf(k)
                  fused == /\ i + 1 <= Len(pureCall.reading)
                           /\ pureCall.reading[i + 1] \in SmallKanaOfCall
              IN  /\ Len(pureCall.result[k]) = (IF fused THEN 2 ELSE 1)
                  /\ Len(pureCall.result[k]) = 2
                        => pureCall.result[k][2] \in SmallKanaOfCall
        /\ pureCall.reading = <<"ki", "xyo", "u">>
              => pureCall.result = << <<"ki", "xyo">>, <<"u">> >>

C19_Witness ==
    /\ Split
    /\ pureCall.reading = <<"ki", "xyo", "u">>
    /\ pureCall.result = << <<"ki", "xyo">>, <<"u">> >>

\* C20 as the specification has it: shi-xya-shi-n is split in the two
\* morae [shi xya, shi n].
C20_ShashinTwoMorae ==
    (Split /\ pureCall.reading = <<"shi", "xya", "shi", "n">>)
        => pureCall.result = << <<"shi", "xya">>, <<"shi", "n">> >>

\* C20, amended: shi-xya-shi-n is split in the three morae
\* [shi xya, shi, n]; the final n is no small kana and is a mora alone.
C20_ShashinThreeMorae ==
    (Split /\ pureCall.reading = <<"shi", "xya", "shi", "n">>)
        => pureCall.result = << <<"shi", "xya">>, <<"shi">>, <<"n">> >>

C20_Witness ==
    /\ Split /\ pureCall.op = "split_morae"
    /\ pureCall.reading = <<"shi", "xya", "shi", "n">>
    /\ Len(pureCall.result) = 3

\* ------------------------------------------------------------------------
\* Pitch heights: get_pitch_heights and PitchDiagramGenerator.generate_svg
\* ------------------------------------------------------------------------

\* Largest number of morae, largest downstep and longest pattern text drawn.
MaxMoraCount == 4
MaxPattern == 5
MaxPatternLen == 2

\* Characters of a pattern text: digits, and what an unknown pattern holds.
DigitChars == {"0", "1", "2", "3"}
PatternChars == DigitChars \cup {"?", "-"}

\* int(c) of one digit
DigitValue(c) ==
    CASE c = "0" -> 0 [] c = "1" -> 1 [] c = "2" -> 2 [] c = "3" -> 3

\* str.isdigit(): not empty, digits only
isdigit(pattern) ==
    /\ pattern # <<>>
    /\ \A i \in 1..Len(pattern) : pattern[i] \in DigitChars

\* int(pattern) of a text of digits
RECURSIVE int(_)
int(pattern) ==
    IF pattern = <<>> THEN 0
    ELSE 10 * int(SubSeq(pattern, 1, Len(pattern) - 1))
         + DigitValue(pattern[Len(pattern)])

\* pattern_num of generate_svg
pattern_num(pattern) == IF isdigit(pattern) THEN int(pattern) ELSE -1

\* [x] * n
Repeat(x, n) == [i \in 1..n |-> x]

\* get_pitch_heights with the downstep counted one mora late.
get_pitch_heights_Late(pattern, num_morae) ==
    IF num_morae = 0 THEN <<>>
    ELSE IF pattern = 0 THEN <<FALSE>> \o Repeat(TRUE, num_morae - 1)
    ELSE IF pattern = 1 THEN <<TRUE>> \o Repeat(FALSE, num_morae - 1)
    ELSE IF pattern > 0
    THEN <<FALSE>> \o [k \in 1..(num_morae - 1) |-> k <= pattern]
    ELSE Repeat(TRUE, num_morae)

\* pitch_accent.get_pitch_heights(pattern, num_morae): TRUE = high.
\* Mora i of the code (from 0) is element i + 1.
get_pitch_heights(pattern, num_morae) ==
    IF num_morae = 0 THEN <<>>
    ELSE IF pattern = 0 THEN <<FALSE>> \o Repeat(TRUE, num_morae - 1)
    ELSE IF pattern = 1 THEN <<TRUE>> \o Repeat(FALSE, num_morae - 1)
    ELSE IF pattern > 0
    THEN <<FALSE>> \o [k \in 1..(num_morae - 1) |-> k < pattern]
    ELSE Repeat(TRUE, num_morae)

\* The y coordinates of the two levels of generate_svg.
high_y == 20
low_y == 50

\* heights of PitchDiagramGenerator.generate_svg(reading, pattern, morae)
\* for num_morae = len(morae).
PitchDiagramGenerator_heights(pattern, num_morae) ==
    LET p == pattern_num(pattern)
    IN  IF num_morae = 0 THEN <<>>
        ELSE IF p = 0 THEN <<low_y>> \o Repeat(high_y, num_morae - 1)
        ELSE IF p = 1 THEN <<high_y>> \o Repeat(low_y, num_morae - 1)
        ELSE IF p > 1
        THEN <<low_y>> \o [k \in 1..(num_morae - 1) |->
                             IF k < p THEN high_y ELSE low_y]
        ELSE Repeat(high_y, num_morae)

\* Arguments of the two functions: an int pattern (-1 = unknown) for
\* get_pitch_heights, a pattern text for generate_svg.
HeightsInputs ==
    [op : {"get_pitch_heights"}, pattern : -2..MaxPattern,
     num_morae : 0..MaxMoraCount, returned : {FALSE}, result : {<<>>}]
    \cup
    [op : {"generate_svg"}, pattern : Texts(PatternChars, MaxPatternLen),
     num_morae : 0..MaxMoraCount, returned : {FALSE}, result : {<<>>}]

\* get_pitch_heights(pattern, num_morae) returns.
CallGetPitchHeights ==
    /\ pureCall.op = "get_pitch_heights" /\ ~pureCall.returned
    /\ pureCall' =
          [pureCall EXCEPT
              !.returned = TRUE,
              !.result = get_pitch_heights(pureCall.pattern,
                                           pureCall.num_morae)]
    /\ UNCHANGED <<cacheVars, tableVars, flagVars, last, mediaVars, pipeVars,
                   radicalVars>>

\* generate_svg(reading, pattern, morae) has computed heights.
CallGenerateSvg ==
    /\ pureCall.op = "generate_svg" /\ ~pureCall.returned
    /\ pureCall' =
          [pureCall EXCEPT
              !.returned = TRUE,
              !.result = PitchDiagramGenerator_heights(pureCall.pattern,
                                                       pureCall.num_morae)]
    /\ UNCHANGED <<cacheVars, tableVars, flagVars, last, mediaVars, pipeVars,
                   radicalVars>>

InitHeights ==
    /\ InitProgram
    /\ PITCH_DB = {} /\ SENTENCES = {}
    /\ jamdict_cache_file = [k \in RadicalKanji |-> "none"]
    /\ _jamdict = TRUE
    /\ pureCall \in HeightsInputs

NextHeights == CallGetPitchHeights \/ CallGenerateSvg

SpecHeights == InitHeights /\ [][NextHeights]_vars

\* A height computation has returned for N >= 1 morae.
HeightsComputed ==
    /\ pureCall.op \in {"get_pitch_heights", "generate_svg"}
    /\ pureCall.returned
    /\ pureCall.num_morae >= 1

\* The number the first k characters of a text of digits read as.
RECURSIVE Decimal(_, _)
Decimal(text, k) ==
    IF k = 0 THEN 0
    ELSE 10 * Decimal(text, k - 1)
         + (CHOOSE v \in 0..9 : <<"0", "1", "2", "3", "4", "5", "6", "7",
                                   "8", "9">>[v + 1] = text[k])

\* The downstep P of the call: the int, or the int the text reads as;
\* -1 when the text is no number.
Downstep ==
    IF pureCall.op = "get_pitch_heights" THEN pureCall.pattern
    ELSE IF /\ pureCall.pattern # <<>>
            /\ \A i \in 1..Len(pureCall.pattern) :
                   pureCall.pattern[i] \in {"0", "1", "2", "3"}
    THEN Decimal(pureCall.pattern, Len(pureCall.pattern))
    ELSE -1

\* Mora i (from 0) of the result is high.
High(i) ==
    IF pureCall.op = "get_pitch_heights" THEN pureCall.result[i + 1]
    ELSE pureCall.result[i + 1] = 20

\* C21: for N >= 1 morae and downstep P, in get_pitch_heights and in
\* generate_svg: P = 0 gives mora 0 low and the others high; P = 1 gives
\* mora 0 high and the others low; 1 < P <= N gives mora 0 low, morae
\* 1..P-1 high, morae P..N-1 low; an unknown P (no number, or negative)
\* gives all morae at one level; the result has exactly N heights.
C21_PitchHeights ==
    HeightsComputed =>
        LET N == pureCall.num_morae
            P == Downstep
        IN  /\ Len(pureCall.result) = N
            /\ P = 0 => /\ ~High(0)
                        /\ \A i \in 1..(N - 1) : High(i)
            /\ P = 1 => /\ High(0)
                        /\ \A i \in 1..(N - 1) : ~High(i)
            /\ (1 < P /\ P <= N) =>
                        /\ ~High(0)
                        /\ \A i \in 1..(P - 1) : i <= N - 1 => High(i)
                        /\ \A i \in P..(N - 1) : ~High(i)
            /\ P < 0 => \A i, j \in 0..(N - 1) : High(i) = High(j)

C21_Witness ==
    /\ HeightsComputed
    /\ pureCall.op = "generate_svg"
    /\ pureCall.pattern = <<"2">>
    /\ pureCall.num_morae = 4
    /\ pureCall.result = <<50, 20, 50, 50>>

\* ------------------------------------------------------------------------
\* VerbConjugator
\* ------------------------------------------------------------------------

\* Characters of a word given to the conjugator: a kanji ("K"), the kanji
\* of miru ("Km"), and the kana su, ru, ku, be, i.
VerbChars == {"K", "Km", "su", "ru", "ku", "be", "i"}

\* Longest word drawn.
MaxVerbLen == 3

\* What a part-of-speech text can hold: a verb marker ("Verb", its
\* Japanese or Vietnamese word, "verb"), an ichidan marker, a godan marker,
\* other words ("Noun").  A word_type is the set of those it holds; the
\* empty set is the empty text.
HintMarkers == {"verb", "Ichidan", "Godan", "Noun"}
WordTypes == SUBSET HintMarkers

\* The five keys of a conjugation.
FormKeys == {"masu", "te", "ta", "nai", "potential"}

\* GODAN_ENDINGS: the rows of the endings that VerbChars holds.
GODAN_ENDINGS ==
    [c \in {"ku", "su", "ru"} |->
        CASE c = "ku" ->
               [masu |-> <<"ki", "ma", "su">>, te |-> <<"i", "te">>,
                ta |-> <<"i", "ta">>, nai |-> <<"ka", "na", "i">>,
                potential |-> <<"ke", "ru">>]
          [] c = "su" ->
               [masu |-> <<"shi", "ma", "su">>, te |-> <<"shi", "te">>,
                ta |-> <<"shi", "ta">>, nai |-> <<"sa", "na", "i">>,
                potential |-> <<"se", "ru">>]
          [] c = "ru" ->
               [masu |-> <<"ri", "ma", "su">>, te |-> <<"xtsu", "te">>,
                ta |-> <<"xtsu", "ta">>, nai |-> <<"ra", "na", "i">>,
                potential |-> <<"re", "ru">>]]

\* IRREGULARS: the entries written with VerbChars (suru, kuru, iku).
IRREGULARS ==
    [w \in {<<"su", "ru">>, <<"ku", "ru">>, <<"i", "ku">>} |->
        CASE w = <<"su", "ru">> ->
               [masu |-> <<"shi", "ma", "su">>, te |-> <<"shi", "te">>,
                ta |-> <<"shi", "ta">>, nai |-> <<"shi", "na", "i">>,
                potential |-> <<"de", "ki", "ru">>, type |-> "suru"]
          [] w = <<"ku", "ru">> ->
               [masu |-> <<"ki", "ma", "su">>, te |-> <<"ki", "te">>,
                ta |-> <<"ki", "ta">>, nai |-> <<"ko", "na", "i">>,
                potential |-> <<"ko", "ra", "re", "ru">>, type |-> "kuru"]
          [] w = <<"i", "ku">> ->
               [masu |-> <<"i", "ki", "ma", "su">>, te |-> <<"i", "xtsu", "te">>,
                ta |-> <<"i", "xtsu", "ta">>, nai |-> <<"i", "ka", "na", "i">>,
                potential |-> <<"i", "ke", "ru">>, type |-> "iku"]]

\* ICHIDAN_COMMON: the members written with VerbChars (miru).
ICHIDAN_COMMON == {<<"Km", "ru">>}

\* e_row and i_row of detect_verb_type, among VerbChars.
e_row == {"be"}
i_row == {"i"}

\* VerbConjugator.detect_verb_type(word, word_type)
detect_verb_type(word, word_type) ==
    IF word_type # {} /\ "verb" \notin word_type THEN "not_verb"
    ELSE IF word \in DOMAIN IRREGULARS THEN IRREGULARS[word].type
    ELSE IF EndsWith(word, <<"su", "ru">>) THEN "suru"
    ELSE IF word_type # {} /\ "Ichidan" \in word_type THEN "ichidan"
    ELSE IF word_type # {} /\ "Godan" \in word_type THEN "godan"
    ELSE IF word \in ICHIDAN_COMMON THEN "ichidan"
    ELSE IF word = <<>> THEN "not_verb"
    ELSE IF /\ word[Len(word)] = "ru" /\ Len(word) >= 2
            /\ word[Len(word) - 1] \in e_row \cup i_row
    THEN "ichidan"
    ELSE IF word[Len(word)] \in DOMAIN GODAN_ENDINGS THEN "godan"
    ELSE "not_verb"

\* The irregular entry returned with its "type" left in.
IrregularForms_WithType(word) == IRREGULARS[word]

\* {k: v for k, v in IRREGULARS[word].items() if k != "type"}
IrregularForms(word) == [k \in FormKeys |-> IRREGULARS[word][k]]

\* A stem that keeps the last character.
stem_Whole(word) == word

\* stem = word[:-1]
stem(word) == DropLast(word, 1)

\* The empty dict.
NoForms == [k \in {} |-> <<>>]

\* VerbConjugator.conjugate(word, reading, word_type)
conjugate(word, reading, word_type) ==
    LET verb_type == detect_verb_type(word, word_type)
    IN  IF verb_type = "not_verb" THEN NoForms
        ELSE IF word \in DOMAIN IRREGULARS THEN IrregularForms(word)
        ELSE IF verb_type = "suru" /\ EndsWith(word, <<"su", "ru">>)
        THEN LET s == DropLast(word, 2)
             IN  [masu |-> s \o <<"shi", "ma", "su">>,
                  te |-> s \o <<"shi", "te">>,
                  ta |-> s \o <<"shi", "ta">>,
                  nai |-> s \o <<"shi", "na", "i">>,
                  potential |-> s \o <<"de", "ki", "ru">>]
        ELSE IF word = <<>> THEN NoForms
        ELSE IF verb_type = "ichidan"
        THEN [masu |-> stem(word) \o <<"ma", "su">>,
              te |-> stem(word) \o <<"te">>,
              ta |-> stem(word) \o <<"ta">>,
              nai |-> stem(word) \o <<"na", "i">>,
              potential |-> stem(word) \o <<"ra", "re", "ru">>]
        ELSE IF verb_type = "godan" /\ word[Len(word)] \in DOMAIN GODAN_ENDINGS
        THEN [k \in FormKeys |->
                 stem(word) \o GODAN_ENDINGS[word[Len(word)]][k]]
        ELSE NoForms

\* Arguments of detect_verb_type and of conjugate; the reading of a
\* conjugate call is empty or a text.
VerbInputs ==
    [op : {"detect_verb_type"}, word : Texts(VerbChars, MaxVerbLen),
     reading : {<<>>}, word_type : WordTypes,
     returned : {FALSE}, verb_type : {"none"}, result : {<<>>}]
    \cup
    [op : {"conjugate"}, word : Texts(VerbChars, MaxVerbLen),
     reading : {<<>>, <<"ru">>}, word_type : WordTypes,
     returned : {FALSE}, verb_type : {"none"}, result : {<<>>}]

\* detect_verb_type(word, word_type) returns.
CallDetectVerbType ==
    /\ pureCall.op = "detect_verb_type" /\ ~pureCall.returned
    /\ pureCall' =
          [pureCall EXCEPT
              !.returned = TRUE,
              !.verb_type = detect_verb_type(pureCall.word,
                                             pureCall.word_type)]
    /\ UNCHANGED <<cacheVars, tableVars, flagVars, last, mediaVars, pipeVars,
                   radicalVars>>

\* conjugate(word, reading, word_type) returns; verb_type is what its call
\* of detect_verb_type gave.
CallConjugate ==
    /\ pureCall.op = "conjugate" /\ ~pureCall.returned
    /\ pureCall' =
          [pureCall EXCEPT
              !.returned = TRUE,
              !.verb_type = detect_verb_type(pureCall.word,
                                             pureCall.word_type),
              !.result = conjugate(pureCall.word, pureCall.reading,
                                   pureCall.word_type)]
    /\ UNCHANGED <<cacheVars, tableVars, flagVars, last, mediaVars, pipeVars,
                   radicalVars>>

InitVerb ==
    /\ InitProgram
    /\ PITCH_DB = {} /\ SENTENCES = {}
    /\ jamdict_cache_file = [k \in RadicalKanji |-> "none"]
    /\ _jamdict = TRUE
    /\ pureCall \in VerbInputs

NextVerb == CallDetectVerbType \/ CallConjugate

SpecVerb == InitVerb /\ [][NextVerb]_vars

\* ------------------------------------------------------------------------
\* Properties of VerbConjugator (SpecVerb)
\* ------------------------------------------------------------------------

\* A classification, or a conjugation, has returned.
Classified == pureCall.op = "detect_verb_type" /\ pureCall.returned
Conjugated == pureCall.op = "conjugate" /\ pureCall.returned

\* The word of the call ends with suru; its last character.
IsSuruCompound ==
    /\ Len(pureCall.word) >= 2
    /\ pureCall.word[Len(pureCall.word) - 1] = "su"
    /\ pureCall.word[Len(pureCall.word)] = "ru"
LastChar == pureCall.word[Len(pureCall.word)]

\* What the part-of-speech hint of the call says, when it says something.
HintSays ==
    IF pureCall.word_type = {} THEN "nothing"
    ELSE IF "verb" \notin pureCall.word_type THEN "not_verb"
    ELSE IF "Ichidan" \in pureCall.word_type THEN "ichidan"
    ELSE IF "Godan" \in pureCall.word_type THEN "godan"
    ELSE "nothing"

\* The classification in the stated priority order.
InPriorityOrder ==
    IF pureCall.word \in DOMAIN IRREGULARS
    THEN IRREGULARS[pureCall.word].type
    ELSE IF IsSuruCompound THEN "suru"
    ELSE IF HintSays # "nothing" THEN HintSays
    ELSE IF pureCall.word \in ICHIDAN_COMMON THEN "ichidan"
    ELSE IF /\ Len(pureCall.word) >= 2 /\ LastChar = "ru"
            /\ pureCall.word[Len(pureCall.word) - 1] \in {"be", "i"}
    THEN "ichidan"
    ELSE IF pureCall.word # <<>> /\ LastChar \in DOMAIN GODAN_ENDINGS
    THEN "godan"
    ELSE "not_verb"

\* C22: detect_verb_type resolves in the order irregular table, -suru
\* suffix, part-of-speech hint, common-ichidan set, ru-ending heuristic,
\* godan ending table, else not-a-verb; a word of the irregular table is
\* classified by that table whatever hint accompanies it.
C22_PriorityOrder ==
    Classified =>
        /\ pureCall.verb_type = InPriorityOrder
        /\ pureCall.word \in DOMAIN IRREGULARS
              => pureCall.verb_type = IRREGULARS[pureCall.word].type

\* C23: for every word, reading and part-of-speech hint, conjugate returns
\* the empty set or a set with exactly the five keys masu, te, ta, nai and
\* potential.
C23_FiveFormsOrNone ==
    Conjugated =>
        \/ DOMAIN pureCall.result = {}
        \/ DOMAIN pureCall.result = {"masu", "te", "ta", "nai", "potential"}

C23_Witness ==
    /\ Conjugated
    /\ pureCall.word = <<"ku", "ru">>
    /\ pureCall.word_type = {"verb"}
    /\ DOMAIN pureCall.result = {"masu", "te", "ta", "nai", "potential"}
    /\ pureCall.result.nai = <<"ko", "na", "i">>

\* The word of the call without its last character.
WithoutLast == SubSeq(pureCall.word, 1, Len(pureCall.word) - 1)

\* The five forms of an ichidan word: the word without its last character
\* and the fixed suffixes.
IchidanForms ==
    /\ DOMAIN pureCall.result = {"masu", "te", "ta", "nai", "potential"}
    /\ pureCall.result.masu = WithoutLast \o <<"ma", "su">>
    /\ pureCall.result.te = WithoutLast \o <<"te">>
    /\ pureCall.result.ta = WithoutLast \o <<"ta">>
    /\ pureCall.result.nai = WithoutLast \o <<"na", "i">>
    /\ pureCall.result.potential = WithoutLast \o <<"ra", "re", "ru">>

\* The five forms of a godan word: the word without its last character
\* and the suffixes of the row of that character.
GodanForms ==
    /\ DOMAIN pureCall.result = {"masu", "te", "ta", "nai", "potential"}
    /\ \A k \in {"masu", "te", "ta", "nai", "potential"} :
           pureCall.result[k] = WithoutLast \o GODAN_ENDINGS[LastChar][k]

\* The result is the same for the other reading.
SameForOtherReadings ==
    \A reading \in {<<>>, <<"ru">>} :
        conjugate(pureCall.word, reading, pureCall.word_type) = pureCall.result

C30_ClassificationAndGenerationAgree ==
    Conjugated =>
        /\ (DOMAIN pureCall.result = {}) <=> (pureCall.verb_type = "not_verb")
        /\ (/\ pureCall.word # <<>>
            /\ pureCall.verb_type \in {"ichidan", "godan", "suru", "kuru",
                                       "iku", "aru"})
              => DOMAIN pureCall.result
                    = {"masu", "te", "ta", "nai", "potential"}

\* ------------------------------------------------------------------------
\* RadicalDB.identify_all_radicals
\* ------------------------------------------------------------------------

\* The radical tables after _load(): a radical "R" with the variant "Rv",
\* and a radical "S" without variants.
RADICAL_BY_SYMBOL ==
    [s \in {"R", "S"} |->
        IF s = "R" THEN [symbol |-> "R", variants |-> <<"Rv">>]
                   ELSE [symbol |-> "S", variants |-> <<>>]]
RADICAL_BY_VARIANT == [v \in {"Rv"} |-> RADICAL_BY_SYMBOL["R"]]

\* What a component of a kanji can be: a radical, a variant of one, or a
\* part that is no radical ("x").
ComponentChars == {"R", "Rv", "S", "x"}

\* Longest component list drawn.
MaxComponents == 3

\* The kanji identify_all_radicals is called with: those of the component
\* cache, and one that is itself a radical.
IdentifyKanji == RadicalKanji \cup {"R"}

\* What jamdict holds for a kanji: its components, and the symbol of its
\* radical string ("" when it has none, "?" when it is not in the tables).
JamdictChars ==
    [components : Texts(ComponentChars, MaxComponents),
     radical : {"R", "Rv", "S", "?", ""}]

\* The kanji of the cache whose jamdict entry is drawn; the others have
\* this entry.
DrawnKanji == "ai"
OtherChars == [components |-> <<"S", "x">>, radical |-> "S"]

\* dict[key] = value
Put(dict, key, value) ==
    [k \in DOMAIN dict \cup {key} |-> IF k = key THEN value ELSE dict[k]]

\* The empty dict.
EmptyDict == [k \in {} |-> <<>>]

\* RadicalDB._get_components(kanji) with the component lists spelled out:
\* cache is the dict _jamdict_cache, chars what jamdict.lookup(kanji)
\* gives, jamdict whether jamdict is there.
_get_components(cache, jamdict, chars, kanji) ==
    IF kanji \in DOMAIN cache
    THEN [cache |-> cache, components |-> cache[kanji]]
    ELSE IF jamdict
    THEN [cache |-> Put(cache, kanji, chars.components),
          components |-> chars.components]
    ELSE [cache |-> cache, components |-> <<>>]

\* A returned radical: {"radical": ..., **rad} with its "found_as" ("" when
\* the key is absent).
RadicalDict(radical, rad, found_as) ==
    [radical |-> radical, symbol |-> rad.symbol, found_as |-> found_as]

\* The first variant of rad that is among the components, "" when none.
variant_used(rad, components) ==
    LET hits == {i \in 1..Len(rad.variants) :
                    \E j \in 1..Len(components) :
                        components[j] = rad.variants[i]}
    IN  IF hits = {} THEN ""
        ELSE rad.variants[CHOOSE i \in hits : \A j \in hits : i <= j]

\* RadicalDB.identify_radical(kanji) for a kanji of one character: <<>> is
\* the empty dict.
identify_radical(jamdict, chars, kanji) ==
    IF kanji \in DOMAIN RADICAL_BY_SYMBOL
    THEN RadicalDict(kanji, RADICAL_BY_SYMBOL[kanji], "")
    ELSE IF jamdict /\ chars.radical \in DOMAIN RADICAL_BY_SYMBOL
    THEN RadicalDict(chars.radical, RADICAL_BY_SYMBOL[chars.radical],
                     variant_used(RADICAL_BY_SYMBOL[chars.radical],
                                  chars.components))
    ELSE IF jamdict /\ chars.radical \in DOMAIN RADICAL_BY_VARIANT
    THEN RadicalDict(RADICAL_BY_VARIANT[chars.radical].symbol,
                     RADICAL_BY_VARIANT[chars.radical],
                     variant_used(RADICAL_BY_VARIANT[chars.radical],
                                  chars.components))
    ELSE IF kanji \in DOMAIN RADICAL_BY_VARIANT
    THEN RadicalDict(RADICAL_BY_VARIANT[kanji].symbol,
                     RADICAL_BY_VARIANT[kanji], kanji)
    ELSE <<>>

\* The loop of identify_all_radicals over the first n components without
\* the seen_symbols test.
RECURSIVE MatchComponents_Unseen(_, _)
MatchComponents_Unseen(components, n) ==
    IF n = 0 THEN <<>>
    ELSE LET results == MatchComponents_Unseen(components, n - 1)
             comp == components[n]
         IN  IF comp \in DOMAIN RADICAL_BY_SYMBOL
             THEN Append(results, RadicalDict(comp, RADICAL_BY_SYMBOL[comp], ""))
             ELSE IF comp \in DOMAIN RADICAL_BY_VARIANT
             THEN Append(results,
                         RadicalDict(RADICAL_BY_VARIANT[comp].symbol,
                                     RADICAL_BY_VARIANT[comp], comp))
             ELSE results

\* The loop of identify_all_radicals over the first n components: results;
\* seen_symbols is the set of the symbols of results.
RECURSIVE MatchComponents(_, _)
MatchComponents(components, n) ==
    IF n = 0 THEN <<>>
    ELSE LET results == MatchComponents(components, n - 1)
             seen_symbols == {results[i].symbol : i \in 1..Len(results)}
             comp == components[n]
         IN  IF comp \in DOMAIN RADICAL_BY_SYMBOL
             THEN IF RADICAL_BY_SYMBOL[comp].symbol \notin seen_symbols
                  THEN Append(results,
                              RadicalDict(comp, RADICAL_BY_SYMBOL[comp], ""))
                  ELSE results
             ELSE IF comp \in DOMAIN RADICAL_BY_VARIANT
             THEN IF RADICAL_BY_VARIANT[comp].symbol \notin seen_symbols
                  THEN Append(results,
                              RadicalDict(RADICAL_BY_VARIANT[comp].symbol,
                                          RADICAL_BY_VARIANT[comp], comp))
                  ELSE results
             ELSE results

\* RadicalDB.identify_all_radicals(kanji) on the loaded cache.
identify_all_radicals(cache, jamdict, chars, kanji) ==
    IF kanji \in DOMAIN RADICAL_BY_SYMBOL
    THEN [cache |-> cache,
          results |-> <<RadicalDict(kanji, RADICAL_BY_SYMBOL[kanji], "")>>]
    ELSE
    LET got == _get_components(cache, jamdict, chars, kanji)
        results == MatchComponents(got.components, Len(got.components))
        main_rad == identify_radical(jamdict, chars, kanji)
    IN  [cache |-> got.cache,
         results |-> IF results # <<>> THEN results
                     ELSE IF main_rad # <<>> THEN <<main_rad>>
                     ELSE <<>>]

\* What jamdict holds for the kanji of a call.
CharsOf(kanji) == IF kanji = DrawnKanji THEN pureCall.chars ELSE OtherChars

\* Nothing was identified yet.
NoIdentified ==
    [key |-> "none", results |-> <<>>,
     before |-> [k \in IdentifyKanji |-> {}]]

\* A caller runs RadicalDB.identify_all_radicals(kanji), _load() included.
\* radLast keeps the list of the call, and for each kanji the list its
\* call before this one returned.
CallIdentifyAllRadicals(kanji) ==
    \E r \in {identify_all_radicals(
                  IF _loaded THEN _jamdict_cache ELSE jamdict_cache_file,
                  _jamdict, CharsOf(kanji), kanji)} :
        /\ _loaded' = TRUE
        /\ _jamdict_cache' = r.cache
        /\ radLast' =
              [key |-> kanji, results |-> r.results,
               before |-> IF radLast.key = "none" THEN radLast.before
                          ELSE [radLast.before EXCEPT
                                   ![radLast.key] = {radLast.results}]]
        /\ UNCHANGED <<cacheVars, tableVars, flagVars, last, mediaVars,
                       pipeVars, jamdict_cache_file, _jamdict, pureCall>>

\* A new process: jamdict installed or not, any entry for the drawn kanji
\* in it, and a jamdict_cache.json that is absent or holds a list for
\* that kanji.
InitRadicals ==
    /\ jishoCache = [w \in Words |-> "none"]
    /\ englishCache = [w \in Words |-> "none"]
    /\ kanjiCache = [k \in Kanji |-> "none"]
    /\ pitchCache = [w \in CacheWords |-> "none"]
    /\ examplesCache = [w \in Words |-> "none"]
    /\ strokeCache = [k \in Kanji |-> FALSE]
    /\ wordAudio = [w \in Words |-> FALSE]
    /\ exAudio = [w \in Words |-> FALSE]
    /\ PITCH_DB = {} /\ SENTENCES = {}
    /\ JishoAPI_last_api_called = FALSE
    /\ KanjiAPI_last_api_called = FALSE
    /\ PitchAccentAPI_last_api_called = FALSE
    /\ ExampleSentencesDB_last_api_called = FALSE
    /\ last = NoCall
    /\ phase = "idle"
    /\ opts = DefaultOptions
    /\ entries = 0
    /\ total_words = 0
    /\ deck = <<>>
    /\ processed = {}
    /\ checkpoint = {}
    /\ _last_api_called = FALSE
    /\ rec = NoRecord
    /\ _loaded = FALSE
    /\ _jamdict_cache = EmptyDict
    /\ radLast = NoIdentified
    /\ jamdict_cache_file \in
          {EmptyDict, Put(EmptyDict, DrawnKanji, <<"Rv", "S", "R">>)}
    /\ _jamdict \in BOOLEAN
    /\ pureCall \in [op : {"identify_all_radicals"}, chars : JamdictChars]

NextRadicals == \E kanji \in IdentifyKanji : CallIdentifyAllRadicals(kanji)

SpecRadicals == InitRadicals /\ [][NextRadicals]_vars

\* ------------------------------------------------------------------------
\* Properties of identify_all_radicals (SpecRadicals)
\* ------------------------------------------------------------------------

\* identify_all_radicals has returned.
Identified == radLast.key # "none"

\* C25: repeated calls of identify_all_radicals for a kanji, the first one
\* populating the component cache and the later ones reading it, return
\* the same radicals in the same order, and no radical symbol is twice in
\* a returned list, a component list with a radical and a variant of it
\* included.
C25_StableAndDuplicateFree ==
    Identified =>
        /\ \A earlier \in radLast.before[radLast.key] :
               radLast.results = earlier
        /\ \A i, j \in 1..Len(radLast.results) :
               radLast.results[i].symbol = radLast.results[j].symbol => i = j

C25_Witness ==
    /\ Identified
    /\ radLast.key = "ai"
    /\ pureCall.chars.components = <<"Rv", "S", "R">>
    /\ radLast.before["ai"] # {}
    /\ "ai" \in DOMAIN _jamdict_cache
    /\ DOMAIN jamdict_cache_file = {}
    /\ Len(radLast.results) = 2
    /\ radLast.results[1].found_as = "Rv"
    /\ radLast.results[2].radical = "S"

\* ------------------------------------------------------------------------
\* AnkiDeckGenerator.add_entry
\* ------------------------------------------------------------------------

\* value or "" for a str field: the value itself, empty or not (the fields
\* of a VocabEntry are never None).
OrEmpty(value) == value

\* The fields of the note add_entry builds from an entry, for the fields of
\* the entry the model holds.
add_entry(entry) ==
    [word |-> OrEmpty(entry.word),
     reading |-> OrEmpty(entry.reading),
     meaning_en |-> OrEmpty(entry.meaning_en),
     pitch_pattern |-> OrEmpty(entry.pitch_pattern),
     stroke_order_svg |-> OrEmpty(entry.stroke_order_svg),
     audio_file |-> IF entry.audio_file # "" THEN "[sound:mp3]" ELSE "",
     examples |-> OrEmpty(entry.examples),
     kanji_kun |-> OrEmpty(entry.kanji_kun),
     word_type |-> OrEmpty(entry.word_type),
     synonyms |-> OrEmpty(entry.synonyms)]

\* The note of the record run() gave to add_entry last.
Note == add_entry(rec.entry)

\* The pitch resolution of that record returned unknown.
PitchUnknown == opts.generate_pitch /\ rec.entry.pitch_pattern = "?"

\* C26: every record handed to the export carries the same fixed list of
\* named string fields, and every field for which no data was resolved is
\* the empty string, never a placeholder: the pitch pattern field of a
\* record whose pitch resolution returned unknown included.
C26_UnresolvedIsEmpty ==
    (Enriched /\ Len(deck) >= 1) =>
        /\ DOMAIN Note = {"word", "reading", "meaning_en", "pitch_pattern",
                          "stroke_order_svg", "audio_file", "examples",
                          "kanji_kun", "word_type", "synonyms"}
        /\ PitchUnknown => Note.pitch_pattern = ""
        /\ \A f \in {"meaning_en", "pitch_pattern", "stroke_order_svg",
                      "audio_file", "kanji_kun", "word_type", "synonyms"} :
               Note[f] \notin {"?", "{}", "[]", "none"}

\* ------------------------------------------------------------------------
\* Properties of the resolution methods, continued (Spec)
\* ------------------------------------------------------------------------

\* C27: after an online get_examples for a word whose fetch returned no
\* example, or failed, a later online call for the word finds the persisted
\* empty entry and does not fetch: last_api_called stays False.
C27_EmptyExamplesNotRefetched ==
    (/\ Called /\ last.op = "examples" /\ ~last.offline /\ ~last.curated
     /\ last.pre = "[]")
        => /\ ~last.fetched
           /\ ~last.flag
           /\ ~ExampleSentencesDB_last_api_called

\* ------------------------------------------------------------------------
\* Properties of the mora segmentation, continued (SpecMorae)
\* ------------------------------------------------------------------------

\* C28: PitchAccentAPI.split_morae of main.py and split_morae of
\* pitch_accent.py return the same mora list for every kana string, small
\* hiragana vowels included.
C28_SameSegmentation ==
    Split =>
        /\ pureCall.result = PitchAccentAPI_split_morae(pureCall.reading)
        /\ pureCall.result = split_morae(pureCall.reading)

\* ------------------------------------------------------------------------
\* Properties of FuriganaGenerator.generate, continued (SpecFurigana)
\* ------------------------------------------------------------------------

\* The first n tokens of an output without the ruby markup and without
\* what stands between <rt> and </rt></ruby>.
RECURSIVE BaseText(_, _)
BaseText(html, n) ==
    IF n = 0 THEN [text |-> <<>>, in_rt |-> FALSE]
    ELSE LET before == BaseText(html, n - 1)
             t == html[n]
         IN  IF t = "<ruby>" THEN before
             ELSE IF t = "<rt>" THEN [before EXCEPT !.in_rt = TRUE]
             ELSE IF t = "</rt></ruby>" THEN [before EXCEPT !.in_rt = FALSE]
             ELSE IF before.in_rt THEN before
             ELSE [before EXCEPT !.text = Append(@, t)]

\* C29: for every word and reading, the output of generate without its
\* ruby markup and annotations is the word, on the per-run path, on the
\* trailing-kanji path and on the whole-word fallback path.
C29_BaseTextKept ==
    Generated =>
        BaseText(pureCall.result, Len(pureCall.result)).text = pureCall.word

\* Per-run path: kanji, kana, kanji, the first kanji annotated by the loop
\* and the last one by the trailing-kanji step.
C29_Witness ==
    /\ Generated
    /\ pureCall.word = <<"K", "ru", "K">>
    /\ pureCall.reading = <<"a", "ru", "ga">>
    /\ pureCall.result =
          Ruby(<<"K">>, <<"a">>) \o <<"ru">> \o Ruby(<<"K">>, <<"ga">>)

====
